---------------------------- MODULE Spec2Model ----------------------------
(***************************************************************************)
(* Lukas-VINE: the dosage calculation engine (calculators-utils.js, the    *)
(* section of src/plant-utils.js at lines 200-372).                        *)
(*                                                                         *)
(* calculateMix and calculateGranular are pure JavaScript functions.  The  *)
(* model keeps JavaScript's dynamic typing: an argument is any JavaScript  *)
(* value (undefined, null, number incl. NaN and +/-Infinity, string,       *)
(* boolean, object, array) and the guards of the code are evaluated with   *)
(* the language's coercions (ToBoolean for `!x`, ToNumber for `x <= 0`,    *)
(* `*`, `/` and isNaN).  Finite numbers are exact rationals n/d; the       *)
(* rounding and the overflow of IEEE-754 doubles are not modelled.         *)
(***************************************************************************)
EXTENDS Integers, Sequences, FiniteSets, TLC

\* one call of a calculator or formatter, as a function of its arguments
VARIABLES fn, args, result

\* calls of the calculators run step by step on a heap of caller-owned
\* objects: the heap, the caller's view of its own objects, the calls in
\* progress, and the number of mutations the callers made
VARIABLES heap, callerView, call, mutations

\* the admin API serving one request: the configured key, the request, the
\* position in the middleware chain, the response, the range query sent to
\* the database, the tables and the stored files
VARIABLES ADMIN_API_KEY, req, stage, res, query, db, storage

calcVars == <<fn, args, result>>

callsVars == <<heap, callerView, call, mutations>>

\* the service worker: the origin's caches, the worker's lifecycle state, the
\* cache deletions activate is waiting for and those that have completed, the
\* fetch event being handled,
\* the cache.put calls not yet completed, and the number of events handled
VARIABLES caches, lifecycle, deleting, deleted, event, puts, handled

\* the page loading plants.json: window.plantsMaster, the calls of loadPlants
\* with their positions, and the number of fetches of plants.json started
VARIABLES plantsMaster, loads, fetches

apiVars == <<ADMIN_API_KEY, req, stage, res, query, db, storage>>

swVars == <<caches, lifecycle, deleting, deleted, event, puts, handled>>

plantsVars == <<plantsMaster, loads, fetches>>

vars == <<calcVars, callsVars, apiVars, swVars, plantsVars>>

\* the parts of the state a specification does not use stay as they are here
CalcIdle == fn = "none" /\ args = <<>> /\ result = [kind |-> "pending"]

CallsIdle ==
    heap = <<>> /\ callerView = <<>> /\ call = <<>> /\ mutations = 0

ApiIdle ==
    /\ ADMIN_API_KEY = <<>> /\ req = <<>> /\ stage = "none" /\ res = <<>>
    /\ query = <<>> /\ db = <<>> /\ storage = {}

SwIdle ==
    /\ caches = <<>> /\ lifecycle = "none" /\ deleting = {} /\ deleted = {}
    /\ event = <<>> /\ puts = {} /\ handled = 0

PlantsIdle == plantsMaster = <<>> /\ loads = <<>> /\ fetches = 0

exceptCalc == <<callsVars, apiVars, swVars, plantsVars>>

exceptCalls == <<calcVars, apiVars, swVars, plantsVars>>

exceptApi == <<calcVars, callsVars, swVars, plantsVars>>

exceptSw == <<calcVars, callsVars, apiVars, plantsVars>>

exceptPlants == <<calcVars, callsVars, apiVars, swVars>>

IdleExceptCalc == CallsIdle /\ ApiIdle /\ SwIdle /\ PlantsIdle

IdleExceptCalls == CalcIdle /\ ApiIdle /\ SwIdle /\ PlantsIdle

IdleExceptApi == CalcIdle /\ CallsIdle /\ SwIdle /\ PlantsIdle

IdleExceptSw == CalcIdle /\ CallsIdle /\ ApiIdle /\ PlantsIdle

IdleExceptPlants == CalcIdle /\ CallsIdle /\ ApiIdle /\ SwIdle

(***************************************************************************)
(* Bounds of the model.                                                    *)
(***************************************************************************)
\* the longest product list passed to calculateMix
MaxProducts == 2

(***************************************************************************)
(* JavaScript values.  A primitive is a record [t, n, d, s]: t is the      *)
(* result of typeof (with "null" for null), n/d the numeric value of a     *)
(* number (d = 0: n = 0 is NaN, n = 1 is Infinity, n = -1 is -Infinity),   *)
(* s the text of a string.  A boolean is n = 1 (true) or n = 0 (false).    *)
(***************************************************************************)
Prim(t, n, d, s) == [t |-> t, n |-> n, d |-> d, s |-> s]

Undefined == Prim("undefined", 0, 0, "")

Null == Prim("null", 0, 0, "")

NaN == Prim("number", 0, 0, "")

Infinity == Prim("number", 1, 0, "")

NegInfinity == Prim("number", -1, 0, "")

Str(s) == Prim("string", 0, 0, s)

True == Prim("boolean", 1, 1, "")

False == Prim("boolean", 0, 1, "")

Abs(x) == IF x < 0 THEN -x ELSE x

Sign(x) == IF x < 0 THEN -1 ELSE IF x > 0 THEN 1 ELSE 0

RECURSIVE GCD(_, _)
GCD(a, b) == IF b = 0 THEN a ELSE GCD(b, a % b)

\* the finite number n/d (d # 0), in lowest terms with a positive denominator
Num(n, d) ==
    LET g == GCD(Abs(n), Abs(d))
        s == IF d < 0 THEN -1 ELSE 1
    IN  Prim("number", (s * n) \div g, (s * d) \div g, "")

\* a plain object with the four properties calculateMix reads; a property
\* that is not set reads as undefined
Obj(id, name, rate, mixRate) ==
    [t |-> "object", id |-> id, name |-> name,
     defaultRatePerGallon |-> rate, mixRate |-> mixRate]

EmptyObject == Obj(Undefined, Undefined, Undefined, Undefined)

Arr(elems) == [t |-> "array", elems |-> elems]

IsNaN(v) == v.t = "number" /\ v.d = 0 /\ v.n = 0

IsFinite(v) == v.t = "number" /\ v.d # 0

(***************************************************************************)
(* The language operations the calculators use.                            *)
(***************************************************************************)
\* typeof v (an array is an object; typeof null is "object")
TypeOf(v) == IF v.t \in {"null", "array"} THEN "object" ELSE v.t

\* Array.isArray(v)
IsArray(v) == v.t = "array"

\* ToBoolean: the truthiness `!v` and `v || w` test
ToBoolean(v) ==
    CASE v.t = "undefined" -> FALSE
      [] v.t = "null"      -> FALSE
      [] v.t = "boolean"   -> v.n = 1
      [] v.t = "number"    -> ~(v.n = 0)
      [] v.t = "string"    -> v.s # ""
      [] OTHER             -> TRUE

\* StringToNumber on the strings of the model: a numeric literal parses to
\* its value, the empty string to 0, any other text to NaN
StringToNumber(s) ==
    CASE s = ""    -> Num(0, 1)
      [] s = "5"   -> Num(5, 1)
      [] s = "-5"  -> Num(-5, 1)
      [] s = "2.5" -> Num(5, 2)
      [] OTHER     -> NaN

\* ToNumber: the coercion applied by <=, *, / and isNaN (an array converts
\* through its text: the arrays of the model hold at most one primitive)
ToNumber(v) ==
    CASE v.t = "undefined" -> NaN
      [] v.t = "null"      -> Num(0, 1)
      [] v.t = "boolean"   -> Num(v.n, 1)
      [] v.t = "number"    -> v
      [] v.t = "string"    -> StringToNumber(v.s)
      [] v.t = "array"     ->
            IF Len(v.elems) = 0 THEN Num(0, 1)
            ELSE IF Len(v.elems) = 1 /\ v.elems[1].t = "number" THEN v.elems[1]
            ELSE IF Len(v.elems) = 1 /\ v.elems[1].t = "string"
                 THEN StringToNumber(v.elems[1].s)
            ELSE IF Len(v.elems) = 1 /\ v.elems[1].t \in {"undefined", "null"}
                 THEN Num(0, 1)
            ELSE NaN
      [] OTHER             -> NaN

\* x <= y on numbers: false when either is NaN
NumLessEq(x, y) ==
    IF IsNaN(x) \/ IsNaN(y) THEN FALSE
    ELSE IF x.d = 0 /\ y.d = 0 THEN x.n <= y.n
    ELSE IF x.d = 0 THEN x.n < 0
    ELSE IF y.d = 0 THEN y.n > 0
    ELSE x.n * y.d <= y.n * x.d

\* v <= 0 as JavaScript evaluates it
LessEqZero(v) == NumLessEq(ToNumber(v), Num(0, 1))

\* isNaN(v)
isNaN(v) == IsNaN(ToNumber(v))

\* x * y on numbers
NumMul(x, y) ==
    IF IsNaN(x) \/ IsNaN(y) THEN NaN
    ELSE IF x.d = 0 \/ y.d = 0
         THEN Prim("number", Sign(x.n) * Sign(y.n), 0, "")
    ELSE Num(x.n * y.n, x.d * y.d)

\* x / y on numbers
NumDiv(x, y) ==
    IF IsNaN(x) \/ IsNaN(y) THEN NaN
    ELSE IF x.d = 0 /\ y.d = 0 THEN NaN
    ELSE IF x.d = 0
         THEN Prim("number", x.n * (IF y.n < 0 THEN -1 ELSE 1), 0, "")
    ELSE IF y.d = 0 THEN Num(0, 1)
    ELSE IF y.n = 0 THEN Prim("number", Sign(x.n), 0, "")
    ELSE Num(x.n * y.d, x.d * y.n)

\* a * b and a / b with the operands coerced
Mul(a, b) == NumMul(ToNumber(a), ToNumber(b))

Div(a, b) == NumDiv(ToNumber(a), ToNumber(b))

\* v.prop: reading a property of undefined or null throws a TypeError
ReadThrows(v) == v.t \in {"undefined", "null"}

\* v.prop where it does not throw: only the objects of the model carry the
\* properties read by the calculators
Get(v, prop) == IF v.t = "object" THEN v[prop] ELSE Undefined


(***************************************************************************)
(* The outcome of a call: a returned value or a thrown exception.          *)
(***************************************************************************)
Return(v) == [kind |-> "return", value |-> v]

Throw(e) == [kind |-> "throw", error |-> e]

Pending == [kind |-> "pending"]

\* an error result that also carries (empty) success fields
ErrorResult_WithSuccessFields(msg) ==
    [error |-> msg, mixItems |-> <<>>, mixText |-> <<>>]

\* return { error: "..." }: the error result holds the message and nothing
\* else
ErrorResult(msg) == [error |-> msg]

(***************************************************************************)
(* calculators-utils.js                                                    *)
(***************************************************************************)
FL_OZ_TO_ML == Num(2957, 100)

\* a spray volume that counts the calls that have returned (a hidden counter)
SprayVolume_CallCounter ==
    Num(1 + Cardinality({c \in DOMAIN call : call[c].pc = "done"}), 1)

SPRAY_VOLUME_PER_1000_SQFT == Num(1, 1)

\* Number.prototype.toFixed(digits) of a number: the decimal text, kept as
\* the count of units of 10^-digits (rounded half away from zero), or the
\* text of NaN and of the infinities
Pow10(k) == IF k = 0 THEN 1 ELSE IF k = 1 THEN 10 ELSE 100

toFixed(x, digits) ==
    IF IsNaN(x) THEN [text |-> "NaN", units |-> 0, digits |-> digits]
    ELSE IF x.d = 0
         THEN [text |-> IF x.n > 0 THEN "Infinity" ELSE "-Infinity",
               units |-> 0, digits |-> digits]
    ELSE [text |-> "decimal",
          units |-> Sign(x.n) *
                    ((2 * Abs(x.n) * Pow10(digits) + x.d) \div (2 * x.d)),
          digits |-> digits]

\* the tank-size check without its `<= 0` test
TankSizeRejected_FalsyOnly(tankSizeGallons) == ~ToBoolean(tankSizeGallons)

\* if (!tankSizeGallons || tankSizeGallons <= 0)
TankSizeRejected(tankSizeGallons) ==
    ~ToBoolean(tankSizeGallons) \/ LessEqZero(tankSizeGallons)

\* the product-list check without its length test
ChemicalsRejected_NoLengthCheck(chemicalsData) == ~IsArray(chemicalsData)

\* if (!Array.isArray(chemicalsData) || chemicalsData.length === 0)
ChemicalsRejected(chemicalsData) ==
    ~IsArray(chemicalsData) \/ Len(chemicalsData.elems) = 0

\* if (typeof chem.defaultRatePerGallon !== "number" ||
\*     chem.defaultRatePerGallon <= 0)
NoStoredRate(chem) ==
    \/ TypeOf(Get(chem, "defaultRatePerGallon")) # "number"
    \/ LessEqZero(Get(chem, "defaultRatePerGallon"))

DefaultLabelRate == Str("Check the product label for exact rates.")

\* chem.mixRate || "Check the product label for exact rates."
LabelRate(chem) ==
    IF ToBoolean(Get(chem, "mixRate")) THEN Get(chem, "mixRate")
    ELSE DefaultLabelRate

FallbackItem(chem) ==
    [id |-> Get(chem, "id"), name |-> Get(chem, "name"),
     labelRate |-> LabelRate(chem), hasStoredRate |-> FALSE]

\* the computed item with ml taken from the rate instead of from flOz
ComputedItem_MlFromRate(chem, tankSizeGallons) ==
    LET flOz == Mul(Get(chem, "defaultRatePerGallon"), tankSizeGallons)
        ml   == Mul(Get(chem, "defaultRatePerGallon"), FL_OZ_TO_ML)
    IN  [id |-> Get(chem, "id"), name |-> Get(chem, "name"),
         ratePerGallon |-> Get(chem, "defaultRatePerGallon"),
         flOz |-> flOz, ml |-> ml, hasStoredRate |-> TRUE]

ComputedItem(chem, tankSizeGallons) ==
    LET flOz == Mul(Get(chem, "defaultRatePerGallon"), tankSizeGallons)
        ml   == Mul(flOz, FL_OZ_TO_ML)
    IN  [id |-> Get(chem, "id"), name |-> Get(chem, "name"),
         ratePerGallon |-> Get(chem, "defaultRatePerGallon"),
         flOz |-> flOz, ml |-> ml, hasStoredRate |-> TRUE]

\* the body of the forEach callback: the item pushed for one chemical
MixItem(chem, tankSizeGallons) ==
    IF NoStoredRate(chem) THEN FallbackItem(chem)
    ELSE ComputedItem(chem, tankSizeGallons)

\* one line of mixText: the template literal, kept as its four holes
MixTextLine(item) ==
    [name |-> item.name, flOz |-> toFixed(item.flOz, 2),
     ml |-> toFixed(item.ml, 0), ratePerGallon |-> item.ratePerGallon]

\* mixText without the filter: a fallback item gets a line too, its amounts
\* undefined
RECURSIVE MixText_Unfiltered(_)
MixText_Unfiltered(mixItems) ==
    IF Len(mixItems) = 0 THEN <<>>
    ELSE IF Head(mixItems).hasStoredRate
         THEN <<MixTextLine(Head(mixItems))>>
                \o MixText_Unfiltered(Tail(mixItems))
    ELSE <<[name |-> Head(mixItems).name, flOz |-> Undefined,
            ml |-> Undefined, ratePerGallon |-> Undefined]>>
           \o MixText_Unfiltered(Tail(mixItems))

\* mixItems.filter(item => item.hasStoredRate).map(...).join('\n'): the
\* sequence of the lines (the empty sequence is the empty string)
RECURSIVE MixText(_)
MixText(mixItems) ==
    IF Len(mixItems) = 0 THEN <<>>
    ELSE IF Head(mixItems).hasStoredRate
         THEN <<MixTextLine(Head(mixItems))>> \o MixText(Tail(mixItems))
    ELSE MixText(Tail(mixItems))

\* the items prepended (unshift) instead of appended (push)
MixItems_Reversed(chemicalsData, tankSizeGallons) ==
    [i \in 1..Len(chemicalsData.elems) |->
        MixItem(chemicalsData.elems[Len(chemicalsData.elems) + 1 - i],
                tankSizeGallons)]

\* chemicalsData.forEach(chem => ...) with mixItems.push(...): one item per
\* element, in order
MixItems(chemicalsData, tankSizeGallons) ==
    [i \in 1..Len(chemicalsData.elems) |->
        MixItem(chemicalsData.elems[i], tankSizeGallons)]

\* the callback reads chem.defaultRatePerGallon first, which throws on a
\* null or undefined element and ends the call
ForEachThrows(chemicalsData) ==
    \E i \in 1..Len(chemicalsData.elems) : ReadThrows(chemicalsData.elems[i])

TankSizeError == "Enter a valid tank size in gallons."

NoChemicalError == "Select at least one chemical."

calculateMix(tankSizeGallons, chemicalsData) ==
    IF TankSizeRejected(tankSizeGallons)
    THEN Return(ErrorResult(TankSizeError))
    ELSE IF ChemicalsRejected(chemicalsData)
    THEN Return(ErrorResult(NoChemicalError))
    ELSE IF ForEachThrows(chemicalsData) THEN Throw("TypeError")
    ELSE LET sprayVolume == SPRAY_VOLUME_PER_1000_SQFT
             estimatedCoverageSqFt == Mul(tankSizeGallons, Num(1000, 1))
             mixItems == MixItems(chemicalsData, tankSizeGallons)
         IN  Return([tankSize |-> tankSizeGallons,
                     sprayVolume |-> sprayVolume,
                     estimatedCoverageSqFt |-> estimatedCoverageSqFt,
                     mixItems |-> mixItems,
                     mixText |-> MixText(mixItems)])

\* the area check without its `<= 0` test
AreaRejected_FalsyOnly(areaSqFt) == ~ToBoolean(areaSqFt)

\* if (!areaSqFt || areaSqFt <= 0)
AreaRejected(areaSqFt) == ~ToBoolean(areaSqFt) \/ LessEqZero(areaSqFt)

\* the rate check without its `<= 0` test
RateRejected_NoSignCheck(ratePerThousandSqFt) ==
    ~ToBoolean(ratePerThousandSqFt) \/ isNaN(ratePerThousandSqFt)

\* if (!ratePerThousandSqFt || ratePerThousandSqFt <= 0 ||
\*     isNaN(ratePerThousandSqFt))
RateRejected(ratePerThousandSqFt) ==
    \/ ~ToBoolean(ratePerThousandSqFt)
    \/ LessEqZero(ratePerThousandSqFt)
    \/ isNaN(ratePerThousandSqFt)

\* the default parameter productName = '': used when the argument is
\* omitted or undefined
DefaultProductName(productName) ==
    IF productName = Undefined THEN Str("") ELSE productName

\* the area divided by 100 instead of 1000
AreaThousands_PerHundred(areaSqFt) == Div(areaSqFt, Num(100, 1))

\* const areaThousands = areaSqFt / 1000
AreaThousands(areaSqFt) == Div(areaSqFt, Num(1000, 1))

\* const totalLbs = areaThousands * ratePerThousandSqFt
TotalLbs(areaThousands, ratePerThousandSqFt) ==
    Mul(areaThousands, ratePerThousandSqFt)

AreaError == "Enter a valid area in square feet."

RateError ==
    "No stored application rate for the selected product. Please refer to the product label."

calculateGranular(areaSqFt, ratePerThousandSqFt, productName) ==
    IF AreaRejected(areaSqFt) THEN Return(ErrorResult(AreaError))
    ELSE IF RateRejected(ratePerThousandSqFt)
    THEN Return(ErrorResult(RateError))
    ELSE LET areaThousands == AreaThousands(areaSqFt)
             totalLbs == TotalLbs(areaThousands, ratePerThousandSqFt)
         IN  Return([productName |-> DefaultProductName(productName),
                     areaSqFt |-> areaSqFt,
                     areaThousands |-> areaThousands,
                     ratePerThousandSqFt |-> ratePerThousandSqFt,
                     totalLbs |-> totalLbs])

(***************************************************************************)
(* The result formatters.  The returned HTML is kept as a record of the    *)
(* holes of the template; an error is returned as the bare message.        *)
(***************************************************************************)
\* results.name: a property that is not set reads as undefined
Field(results, name) ==
    IF name \in DOMAIN results THEN results[name] ELSE Undefined

\* the test reading a property the results never carry
HasError_WrongProperty(results) == "err" \in DOMAIN results

\* if (results.error): the error is set and truthy (a non-empty string)
HasError(results) == "error" \in DOMAIN results /\ results.error # ""

\* return results.error
ErrorText(results) == results.error

\* x.toFixed(...) throws a TypeError unless x is a number
ToFixedThrows(x) == x.t # "number"

\* the <li> of one mix item
MixItemHTML(item) ==
    IF ~item.hasStoredRate
    THEN [name |-> item.name, labelRate |-> item.labelRate]
    ELSE [name |-> item.name, flOz |-> toFixed(item.flOz, 2),
          ml |-> toFixed(item.ml, 0), ratePerGallon |-> item.ratePerGallon]

formatMixResultsHTML(results) ==
    IF HasError(results) THEN Return(ErrorText(results))
    ELSE IF ToFixedThrows(Field(results, "estimatedCoverageSqFt"))
    THEN Throw("TypeError")
    ELSE IF "mixItems" \notin DOMAIN results THEN Throw("TypeError")
    ELSE Return([tankSize |-> Field(results, "tankSize"),
                 sprayVolume |-> Field(results, "sprayVolume"),
                 estimatedCoverageSqFt
                    |-> toFixed(results.estimatedCoverageSqFt, 0),
                 items |-> [i \in 1..Len(results.mixItems)
                               |-> MixItemHTML(results.mixItems[i])]])

formatGranularResultsHTML(results) ==
    IF HasError(results) THEN Return(ErrorText(results))
    ELSE IF \/ ToFixedThrows(Field(results, "areaSqFt"))
            \/ ToFixedThrows(Field(results, "areaThousands"))
            \/ ToFixedThrows(Field(results, "totalLbs"))
    THEN Throw("TypeError")
    ELSE Return([productName
                    |-> IF ToBoolean(Field(results, "productName"))
                        THEN results.productName ELSE Undefined,
                 areaSqFt |-> toFixed(results.areaSqFt, 0),
                 areaThousands |-> toFixed(results.areaThousands, 2),
                 ratePerThousandSqFt
                    |-> Field(results, "ratePerThousandSqFt"),
                 totalLbs |-> toFixed(results.totalLbs, 2)])

(***************************************************************************)
(* The inputs of the model: every kind of JavaScript value a caller can    *)
(* pass, in each argument position.                                        *)
(***************************************************************************)
\* values that are no usable quantity, shared by tank size, area and rate
OddQuantities ==
    {Undefined, Null, Num(0, 1), Num(-5, 1), NaN, Infinity, NegInfinity,
     Str(""), Str("5"), Str("-5"), Str("abc"), True, False, EmptyObject,
     Arr(<<>>), Arr(<<Num(5, 1)>>)}

TankValues == OddQuantities \cup {Num(25, 1), Num(10, 1), Num(1, 2)}

AreaValues == OddQuantities \cup {Num(5000, 1), Num(2500, 1), Num(1000, 1)}

RateValues == OddQuantities \cup {Num(4, 1), Num(7, 2), Num(2, 1)}

ProductNameValues == {Undefined, Null, Str(""), Str("Test Granular Product")}

Chem1(rate, mixRate) == Obj(Str("chem1"), Str("Chemical 1"), rate, mixRate)

Chem2(rate, mixRate) == Obj(Str("chem2"), Str("Chemical 2"), rate, mixRate)

\* product records (set and unset rates, with and without a mixRate) and
\* elements that are no product record
Products ==
    {Chem1(r, Undefined) :
        r \in {Undefined, Num(5, 2), Num(0, 1), Num(-1, 1), NaN, Infinity,
               Str("2.5")}}
    \cup {Chem1(Undefined, Str("")), Chem1(Undefined, Str("See label")),
          Chem1(NaN, Str("See label")),
          Chem2(Num(3, 2), Str("1.5 fl oz/gal")),
          Chem2(Undefined, Str("See label"))}

ListElements == Products \cup {Null, Undefined, Num(5, 1), Str("abc")}

ListsUpTo(n) == UNION {[1..k -> ListElements] : k \in 0..n}

ChemicalsValues ==
    {Arr(s) : s \in ListsUpTo(MaxProducts)}
    \cup {Undefined, Null, Str("chem1"), EmptyObject, Num(5, 1)}

\* the messages of the error results handed to the formatters
ErrorMessages ==
    {"", "X", "Test error", TankSizeError, NoChemicalError, AreaError,
     RateError}

\* what a caller formats: an error result, or a value calculateMix /
\* calculateGranular returned
MixResults ==
    {ErrorResult(m) : m \in ErrorMessages}
    \cup {calculateMix(t, c).value :
            <<t, c>> \in {a \in TankValues \X ChemicalsValues :
                            calculateMix(a[1], a[2]).kind = "return"}}

GranularResults ==
    {ErrorResult(m) : m \in ErrorMessages}
    \cup {calculateGranular(a, r, p).value :
            a \in AreaValues, r \in RateValues, p \in ProductNameValues}

(***************************************************************************)
(* The state machine: a caller picks a function and its arguments (Init),  *)
(* then the call runs to its outcome.                                      *)
(***************************************************************************)
Init ==
    /\ IdleExceptCalc
    /\ result = Pending
    /\ \/ /\ fn = "calculateMix"
          /\ args \in {<<t, c>> : t \in TankValues, c \in ChemicalsValues}
       \/ /\ fn = "calculateGranular"
          /\ args \in {<<a, r, p>> : a \in AreaValues, r \in RateValues,
                                     p \in ProductNameValues}
       \/ /\ fn = "formatMixResultsHTML"
          /\ args \in {<<r>> : r \in MixResults}
       \/ /\ fn = "formatGranularResultsHTML"
          /\ args \in {<<r>> : r \in GranularResults}

CalculateMix ==
    /\ fn = "calculateMix"
    /\ result = Pending
    /\ result' = calculateMix(args[1], args[2])
    /\ UNCHANGED <<fn, args>>
    /\ UNCHANGED exceptCalc

CalculateGranular ==
    /\ fn = "calculateGranular"
    /\ result = Pending
    /\ result' = calculateGranular(args[1], args[2], args[3])
    /\ UNCHANGED <<fn, args>>
    /\ UNCHANGED exceptCalc

FormatMixResultsHTML ==
    /\ fn = "formatMixResultsHTML"
    /\ result = Pending
    /\ result' = formatMixResultsHTML(args[1])
    /\ UNCHANGED <<fn, args>>
    /\ UNCHANGED exceptCalc

FormatGranularResultsHTML ==
    /\ fn = "formatGranularResultsHTML"
    /\ result = Pending
    /\ result' = formatGranularResultsHTML(args[1])
    /\ UNCHANGED <<fn, args>>
    /\ UNCHANGED exceptCalc

Next ==
    \/ CalculateMix
    \/ CalculateGranular
    \/ FormatMixResultsHTML
    \/ FormatGranularResultsHTML

Spec == Init /\ [][Next]_vars

(***************************************************************************)
(* Calls on a heap.  JavaScript passes objects by reference: the product   *)
(* list and the product records belong to the caller, and calculateMix     *)
(* builds its result out of objects it allocates.  The heap maps addresses *)
(* to objects; an array on the heap holds the addresses of its elements.   *)
(* A new object gets an address no object has: the array of call c the     *)
(* address ItemsBase(c), its k-th record the k-th address after it.         *)
(* calculateMix runs in three kinds of step (validation and allocation of  *)
(* mixItems, one forEach iteration, the return), so that the steps of      *)
(* several calls can interleave; calculateGranular has no loop and runs in *)
(* one step.  The callers mutate their own objects between the calls.      *)
(* Elements here are product records; the throwing elements are covered by *)
(* the one-call specification above.                                       *)
(***************************************************************************)
MaxListLen == 2

MaxMutations == 1

Calls == {1, 2, 3}

CatalogAddrs == {1, 2}

ListAddrs == {3}

TankAddrs == {4}

InputAddrs == CatalogAddrs \cup ListAddrs \cup TankAddrs

\* an argument or a field is a primitive or a reference to a heap object
Ref(a) == [ref |-> a]

IsRef(x) == "ref" \in DOMAIN x

Val(h, x) == IF IsRef(x) THEN h[x.ref] ELSE x

AddressLists == UNION {[1..k -> CatalogAddrs] : k \in 0..MaxListLen}

\* the caller's objects: two product records, one with a stored rate and one
\* without, a product list, and the array [5], which a caller may pass as
\* the tank size
InitialHeap(list) ==
    <<Chem1(Num(5, 2), Undefined), Chem2(Undefined, Str("See label")),
      Arr(list), Arr(<<Num(5, 1)>>)>>

\* the array at address a with its elements read through the heap
Deep(h, a) == Arr([i \in 1..Len(h[a].elems) |-> h[h[a].elems[i]]])

DeepArgs(h, f, as) ==
    IF f = "calculateMix" THEN <<Val(h, as[1]), Deep(h, as[2].ref)>> ELSE as

\* an outcome with its tankSize and mixItems read through the heap
DeepResult(h, r) ==
    IF r.kind = "return" /\ "mixItems" \in DOMAIN r.value
    THEN Return([r.value EXCEPT !.tankSize = Val(h, @),
                                !.mixItems = Deep(h, @).elems])
    ELSE r

IdleCall(f, as) ==
    [fn |-> f, args |-> as, pc |-> "idle", i |-> 0, items |-> 0,
     result |-> Pending, argsAtCall |-> <<>>, doneBefore |-> 0,
     returned |-> Pending]

CallChoices ==
    <<IdleCall("calculateMix", <<Num(25, 1), Ref(3)>>),
      IdleCall("calculateMix", <<Num(0, 1), Ref(3)>>),
      IdleCall("calculateMix", <<Ref(4), Ref(3)>>),
      IdleCall("calculateGranular", <<Num(5000, 1), Num(4, 1), Str("Fert")>>)>>

\* the calls are numbered in the order of their choices; their steps run in
\* every order
OrderedChoices ==
    {k \in [Calls -> DOMAIN CallChoices] :
        \A c, d \in Calls : c < d => k[c] <= k[d]}

ItemsBase(c) == 10 * c

\* bookkeeping for the properties: the arguments as they were when the call
\* began, the number of calls that had returned by then, and the result as it
\* was when the call returned
Started(c) ==
    [call[c] EXCEPT !.argsAtCall = DeepArgs(heap, call[c].fn, call[c].args),
                    !.doneBefore =
                        Cardinality({d \in Calls : call[d].pc = "done"})]

Finished(rec, h, r) ==
    [rec EXCEPT !.pc = "done", !.result = r, !.returned = DeepResult(h, r)]

\* mixItems kept in one array for all calls: the first call allocates it,
\* the later calls push onto the same array
NewItems_ModuleLevel(h, c) ==
    LET arrays == {a \in (DOMAIN h) \ InputAddrs : "elems" \in DOMAIN h[a]}
    IN  IF arrays = {}
        THEN [heap |-> h @@ (ItemsBase(c) :> Arr(<<>>)),
              addr |-> ItemsBase(c)]
        ELSE [heap |-> h, addr |-> CHOOSE a \in arrays : TRUE]

\* const mixItems = []: a new array at a new address
NewItems(h, c) ==
    [heap |-> h @@ (ItemsBase(c) :> Arr(<<>>)), addr |-> ItemsBase(c)]

\* mixItems.push({ ... }): the object literal is a new record at a new
\* address, its fields copied from the primitives read off chem
PushItem(h, items, chemAddr, tankSizeGallons) ==
    LET new == items + Len(h[items].elems) + 1
    IN  [(h @@ (new :> MixItem(h[chemAddr], tankSizeGallons)))
            EXCEPT ![items] = Arr(Append(h[items].elems, new))]

CallsInit ==
    /\ IdleExceptCalls
    /\ heap \in {InitialHeap(l) : l \in AddressLists}
    /\ callerView = heap
    /\ call \in {[c \in Calls |-> CallChoices[k[c]]] : k \in OrderedChoices}
    /\ mutations = 0

\* lines 216-227: the two validations, then the allocation of mixItems
BeginMix ==
    \E c \in Calls :
        /\ call[c].fn = "calculateMix"
        /\ call[c].pc = "idle"
        /\ LET tankSizeGallons == Val(heap, call[c].args[1])
               chemicalsData == Val(heap, call[c].args[2])
               new == NewItems(heap, c)
           IN  IF TankSizeRejected(tankSizeGallons)
               THEN /\ call' = [call EXCEPT ![c] =
                           Finished(Started(c), heap,
                                    Return(ErrorResult(TankSizeError)))]
                    /\ heap' = heap
               ELSE IF ChemicalsRejected(chemicalsData)
               THEN /\ call' = [call EXCEPT ![c] =
                           Finished(Started(c), heap,
                                    Return(ErrorResult(NoChemicalError)))]
                    /\ heap' = heap
               ELSE /\ call' = [call EXCEPT ![c] =
                           [Started(c) EXCEPT !.pc = "forEach", !.i = 1,
                                              !.items = new.addr]]
                    /\ heap' = new.heap
        /\ UNCHANGED <<callerView, mutations>>
        /\ UNCHANGED exceptCalls

\* lines 229-251: one iteration of the forEach callback
ForEachStep ==
    \E c \in Calls :
        /\ call[c].pc = "forEach"
        /\ call[c].i <= Len(Val(heap, call[c].args[2]).elems)
        /\ heap' = PushItem(heap, call[c].items,
                            Val(heap, call[c].args[2]).elems[call[c].i],
                            Val(heap, call[c].args[1]))
        /\ call' = [call EXCEPT ![c].i = @ + 1]
        /\ UNCHANGED <<callerView, mutations>>
        /\ UNCHANGED exceptCalls

\* lines 253-262: the result object, tankSize as it was passed (a reference
\* when the caller passed an object), mixItems by reference and mixText
\* computed from the items
ReturnMix ==
    \E c \in Calls :
        /\ call[c].pc = "forEach"
        /\ call[c].i > Len(Val(heap, call[c].args[2]).elems)
        /\ call' = [call EXCEPT ![c] =
               Finished(call[c], heap,
                   Return([tankSize |-> call[c].args[1],
                           sprayVolume |-> SPRAY_VOLUME_PER_1000_SQFT,
                           estimatedCoverageSqFt |->
                               Mul(Val(heap, call[c].args[1]), Num(1000, 1)),
                           mixItems |-> call[c].items,
                           mixText |->
                               MixText(Deep(heap, call[c].items).elems)]))]
        /\ UNCHANGED <<heap, callerView, mutations>>
        /\ UNCHANGED exceptCalls

\* lines 272-291: calculateGranular reads three primitives and returns a new
\* object of primitives
RunGranular ==
    \E c \in Calls :
        /\ call[c].fn = "calculateGranular"
        /\ call[c].pc = "idle"
        /\ call' = [call EXCEPT ![c] =
               Finished(Started(c), heap,
                        calculateGranular(call[c].args[1], call[c].args[2],
                                          call[c].args[3]))]
        /\ UNCHANGED <<heap, callerView, mutations>>
        /\ UNCHANGED exceptCalls

\* a caller runs only between calls, when no call is inside its loop, and
\* mutates its objects after a call has returned
NoCallRunning ==
    /\ \A c \in Calls : call[c].pc # "forEach"
    /\ \E c \in Calls : call[c].pc = "done"

ObjectEdits(obj) ==
    IF obj.t = "array" THEN {Arr(<<Num(7, 1)>>)} \ {obj}
    ELSE {[obj EXCEPT !.defaultRatePerGallon =
                          IF @ = Undefined THEN Num(3, 1) ELSE Undefined,
                      !.name = Str("Renamed")]}

\* a caller changes the fields of one of its product records, or the element
\* of its tank array
MutateObject ==
    /\ NoCallRunning
    /\ mutations < MaxMutations
    /\ \E a \in CatalogAddrs \cup TankAddrs : \E v \in ObjectEdits(heap[a]) :
           /\ heap' = [heap EXCEPT ![a] = v]
           /\ callerView' = [callerView EXCEPT ![a] = v]
    /\ mutations' = mutations + 1
    /\ UNCHANGED call
    /\ UNCHANGED exceptCalls

ListEdits(elems) ==
    {Append(elems, a) : a \in {b \in {2} : Len(elems) < MaxListLen}}
    \cup {SubSeq(elems, 1, Len(elems) - 1) : k \in {n \in {1} : Len(elems) > 0}}

\* a caller pushes onto or pops from one of its product lists
MutateList ==
    /\ NoCallRunning
    /\ mutations < MaxMutations
    /\ \E l \in ListAddrs : \E e \in ListEdits(heap[l].elems) :
           /\ heap' = [heap EXCEPT ![l] = Arr(e)]
           /\ callerView' = [callerView EXCEPT ![l] = Arr(e)]
    /\ mutations' = mutations + 1
    /\ UNCHANGED call
    /\ UNCHANGED exceptCalls

CallsNext ==
    \/ BeginMix
    \/ ForEachStep
    \/ ReturnMix
    \/ RunGranular
    \/ MutateObject
    \/ MutateList

CallsSpec == CallsInit /\ [][CallsNext]_vars

(***************************************************************************)
(* The admin API.  One request passes requireAdminAuth and then its route  *)
(* handler.  Header, query and body values are texts (sequences of         *)
(* characters) or absent; the database and the file storage are outside    *)
(* the program, so whether an insert, a query or an upload succeeds is     *)
(* chosen freely.                                                          *)
(***************************************************************************)
Absent == [present |-> FALSE, chars |-> <<>>]

Text(cs) == [present |-> TRUE, chars |-> cs]

\* ToBoolean of a text: undefined and the empty string are falsy
Truthy(v) == v.present /\ Len(v.chars) > 0

\* the first index at which pat occurs in cs, 0 when it does not occur
IndexOf(cs, pat) ==
    LET hits == {i \in 1..(Len(cs) - Len(pat) + 1) :
                    SubSeq(cs, i, i + Len(pat) - 1) = pat}
    IN  IF hits = {} THEN 0 ELSE CHOOSE i \in hits : \A j \in hits : i <= j

\* String.prototype.replace with a string pattern: the first occurrence only
Replace(cs, pat, by) ==
    LET i == IndexOf(cs, pat)
    IN  IF i = 0 THEN cs
        ELSE SubSeq(cs, 1, i - 1) \o by \o SubSeq(cs, i + Len(pat), Len(cs))

BearerPrefix == <<"B", "e", "a", "r", "e", "r", " ">>

\* req.headers['x-admin-api-key'] ||
\* req.headers['authorization']?.replace('Bearer ', '')
ProvidedKey(headers) ==
    IF Truthy(headers.x_admin_api_key) THEN headers.x_admin_api_key
    ELSE IF ~headers.authorization.present THEN Absent
    ELSE Text(Replace(headers.authorization.chars, BearerPrefix, <<>>))

\* a comparison that lets every key through
KeyMismatch_Never(providedKey, key) == FALSE

\* providedKey !== ADMIN_API_KEY
KeyMismatch(providedKey, key) == providedKey # key

Response(status, message) ==
    [status |-> status, message |-> message, pagination |-> <<>>,
     id |-> 0, photos |-> <<>>, warning |-> FALSE]

NoResponse == Response(0, "")

\* the outcome of requireAdminAuth: "next" or the response it sends
requireAdminAuth(key, headers) ==
    IF ~Truthy(key) THEN "next"
    ELSE IF ~Truthy(ProvidedKey(headers)) THEN "401"
    ELSE IF KeyMismatch(ProvidedKey(headers), key) THEN "403"
    ELSE "next"

\* parseInt on a text: leading blanks, an optional sign, then the longest
\* run of decimal digits; NaN when there is no digit
DigitChars == <<"0", "1", "2", "3", "4", "5", "6", "7", "8", "9">>

IsDigit(c) == \E i \in DOMAIN DigitChars : DigitChars[i] = c

DigitValue(c) == (CHOOSE i \in DOMAIN DigitChars : DigitChars[i] = c) - 1

RECURSIVE SkipBlanks(_)
SkipBlanks(cs) ==
    IF Len(cs) > 0 /\ Head(cs) = " " THEN SkipBlanks(Tail(cs)) ELSE cs

RECURSIVE DigitRun(_, _)
DigitRun(cs, acc) ==
    IF Len(cs) > 0 /\ IsDigit(Head(cs))
    THEN DigitRun(Tail(cs), 10 * acc + DigitValue(Head(cs)))
    ELSE acc

parseIntText(cs) ==
    LET t == SkipBlanks(cs)
        negative == Len(t) > 0 /\ Head(t) = "-"
        signed == Len(t) > 0 /\ Head(t) \in {"-", "+"}
        digits == IF signed THEN Tail(t) ELSE t
    IN  IF Len(digits) = 0 \/ ~IsDigit(Head(digits)) THEN NaN
        ELSE IF negative THEN Num(0 - DigitRun(digits, 0), 1)
        ELSE Num(DigitRun(digits, 0), 1)

\* parseInt(limit) where const { limit = deflt } = req.query: an absent
\* parameter is the number deflt
parseInt(param, deflt) ==
    IF param.present THEN parseIntText(param.chars) ELSE Num(deflt, 1)

\* a || b on numbers
OrElse(a, b) == IF ToBoolean(a) THEN a ELSE b

MathMin(a, b) == IF NumLessEq(a, b) THEN a ELSE b

DefaultLimit == 50

MaxLimit == 100

\* Math.min(parseInt(limit) || 50, 100)
ParsedLimit(limit) ==
    MathMin(OrElse(parseInt(limit, DefaultLimit), Num(DefaultLimit, 1)),
            Num(MaxLimit, 1))

\* parseInt(offset) || 0
ParsedOffset(offset) == OrElse(parseInt(offset, 0), Num(0, 1))

\* query.range(parsedOffset, parsedOffset + parsedLimit - 1)
Range(table, limit, offset) ==
    [table |-> table, from |-> ParsedOffset(offset).n,
     to |-> ParsedOffset(offset).n + ParsedLimit(limit).n - 1]

\* /^\d{4}-\d{2}-\d{2}$/.test(date)
DateRegexTest(cs) ==
    /\ Len(cs) = 10
    /\ \A i \in {1, 2, 3, 4, 6, 7, 9, 10} : IsDigit(cs[i])
    /\ cs[5] = "-" /\ cs[8] = "-"

\* JSON.parse on the texts the requests carry: the value, or a SyntaxError
JSONparse(cs) ==
    CASE cs = <<"[", "]">>           -> [ok |-> TRUE, value |-> Arr(<<>>)]
      [] cs = <<"[", "1", "]">>      -> [ok |-> TRUE,
                                         value |-> Arr(<<Num(1, 1)>>)]
      [] cs = <<"{", "}">>           -> [ok |-> TRUE, value |-> EmptyObject]
      [] cs = <<"n", "u", "l", "l">> -> [ok |-> TRUE, value |-> Null]
      [] cs = <<"7">>                -> [ok |-> TRUE, value |-> Num(7, 1)]
      [] OTHER                       -> [ok |-> FALSE, value |-> Undefined]

\* the try block: JSON.parse throws, or the value is no array
ListRejected(text) ==
    ~JSONparse(text.chars).ok \/ ~IsArray(JSONparse(text.chars).value)

\* the table a route works on, and the body field holding its list
TableOf(route) ==
    CASE route = "/api/admin/treatment-logs" -> "treatment_logs"
      [] route = "/api/admin/scouting-logs"  -> "scouting_logs"
      [] route = "/api/admin/requests"       -> "requests"
      [] route = "/api/admin/requests/anonymous" -> "requests"
      [] route = "/api/admin/requests/:id"   -> "requests"

ListField(body, route) ==
    IF route = "/api/admin/treatment-logs" THEN body.inputs
    ELSE body.pests_observed

MissingFieldsMessage(route) ==
    IF route = "/api/admin/treatment-logs"
    THEN "Missing required fields: employee_name, date, location, crop, inputs"
    ELSE "Missing required fields: employee_name, date, location, crop, pests_observed"

InvalidListMessage(route) ==
    IF route = "/api/admin/treatment-logs"
    THEN "Invalid inputs format. Must be a JSON array"
    ELSE "Invalid pests_observed format. Must be a JSON array"

\* validations that try the list before the date
ValidationError_ListFirst(body, route) ==
    IF \/ ~Truthy(body.employee_name) \/ ~Truthy(body.date)
       \/ ~Truthy(body.location) \/ ~Truthy(body.crop)
       \/ ~Truthy(ListField(body, route))
    THEN MissingFieldsMessage(route)
    ELSE IF ListRejected(ListField(body, route))
    THEN InvalidListMessage(route)
    ELSE IF ~DateRegexTest(body.date.chars)
    THEN "Invalid date format. Use YYYY-MM-DD"
    ELSE IF Truthy(body.weather) /\ ~JSONparse(body.weather.chars).ok
    THEN "Invalid weather format. Must be valid JSON"
    ELSE ""

\* the validations of the POST handlers, in order: the 400 message, or ""
\* when the body passes
ValidationError(body, route) ==
    IF \/ ~Truthy(body.employee_name) \/ ~Truthy(body.date)
       \/ ~Truthy(body.location) \/ ~Truthy(body.crop)
       \/ ~Truthy(ListField(body, route))
    THEN MissingFieldsMessage(route)
    ELSE IF ~DateRegexTest(body.date.chars)
    THEN "Invalid date format. Use YYYY-MM-DD"
    ELSE IF ListRejected(ListField(body, route))
    THEN InvalidListMessage(route)
    ELSE IF Truthy(body.weather) /\ ~JSONparse(body.weather.chars).ok
    THEN "Invalid weather format. Must be valid JSON"
    ELSE ""

\* the values of the fields of a JSON body: undefined when the field is
\* missing, null, a number, or a string
JsonUndefined == [kind |-> "undefined", chars |-> <<>>]

JsonNull == [kind |-> "null", chars |-> <<>>]

JsonNumber(cs) == [kind |-> "number", chars |-> cs]

JsonString(cs) == [kind |-> "string", chars |-> cs]

JsonTruthy(v) ==
    CASE v.kind = "string" -> v.chars # <<>>
      [] v.kind = "number" -> v.chars # <<"0">>
      [] OTHER             -> FALSE

HexLetters == {"a", "b", "c", "d", "e", "f", "A", "B", "C", "D", "E", "F"}

DashPositions == {9, 14, 19, 24}

\* /^[0-9a-f]{8}-[0-9a-f]{4}-[0-9a-f]{4}-[0-9a-f]{4}-[0-9a-f]{12}$/i.test(cs)
UuidRegexTest(cs) ==
    /\ Len(cs) = 36
    /\ \A i \in 1..36 :
           IF i \in DashPositions THEN cs[i] = "-"
           ELSE IsDigit(cs[i]) \/ cs[i] \in HexLetters

\* the id the database gives the k-th row of requests
RowId(k) ==
    [i \in 1..36 |-> IF i \in DashPositions THEN "-" ELSE DigitChars[k + 1]]

PendingText == <<"p", "e", "n", "d", "i", "n", "g">>

InProgress == <<"i", "n", "-", "p", "r", "o", "g", "r", "e", "s", "s">>

Resolved == <<"r", "e", "s", "o", "l", "v", "e", "d">>

Closed == <<"c", "l", "o", "s", "e", "d">>

validStatuses == {PendingText, InProgress, Resolved, Closed}

Low == <<"l", "o", "w">>

Medium == <<"m", "e", "d", "i", "u", "m">>

High == <<"h", "i", "g", "h">>

Critical == <<"c", "r", "i", "t", "i", "c", "a", "l">>

validUrgencies == {Low, Medium, High, Critical}

\* a list of urgencies that lets every text through
UrgencyRejected_Never(urgency) == FALSE

\* !validUrgencies.includes(urgency)
UrgencyRejected(urgency) == urgency.chars \notin validUrgencies

\* the validations of POST /api/admin/requests/anonymous, in order: the 400
\* message, or "" when the body passes
RequestValidationError(body) ==
    IF \/ ~Truthy(body.reporter_name) \/ ~Truthy(body.contact)
       \/ ~Truthy(body.plant_type) \/ ~Truthy(body.symptoms)
       \/ ~Truthy(body.urgency)
    THEN "Missing required fields: reporter_name, contact, plant_type, symptoms, urgency"
    ELSE IF UrgencyRejected(body.urgency)
    THEN "Invalid urgency. Must be one of: low, medium, high, critical"
    ELSE ""

\* the row of requests the handler inserts, with the id and the defaults of
\* the table
NewRequest(body, id) ==
    [id |-> id, reporter_id |-> JsonNull,
     reporter_name |-> body.reporter_name.chars,
     urgency |-> body.urgency.chars, status |-> PendingText,
     assigned_to |-> JsonNull, photos |-> <<>>]

\* !validStatuses.includes(status), for a status that is not undefined
StatusRejected(status) ==
    ~(status.kind = "string" /\ status.chars \in validStatuses)

\* assigned_to is neither null, nor '', nor a text the uuidRegex accepts
AssigneeRejected(assigned_to) ==
    /\ assigned_to # JsonNull
    /\ assigned_to # JsonString(<<>>)
    /\ ~UuidRegexTest(assigned_to.chars)

\* the validation of the body of a PATCH: the 400 message, or ""
PatchValidationError(body) ==
    IF body.status # JsonUndefined /\ StatusRejected(body.status)
    THEN "Invalid status. Must be one of: pending, in-progress, resolved, closed"
    ELSE IF /\ body.assigned_to # JsonUndefined
            /\ AssigneeRejected(body.assigned_to)
    THEN "Invalid assigned_to UUID format"
    ELSE ""

\* an update sent as soon as the status is accepted
UpdateSent_StatusOnly(body) ==
    /\ body.status # JsonUndefined
    /\ ~StatusRejected(body.status)

\* the handler reaches supabase.from('requests').update(updates): no
\* validation has returned, and updates has a key
UpdateSent(body) ==
    /\ PatchValidationError(body) = ""
    /\ body.status # JsonUndefined \/ body.assigned_to # JsonUndefined

\* the row after update(updates)
Updated(row, body) ==
    [row EXCEPT
        !.status = IF body.status = JsonUndefined THEN @
                   ELSE body.status.chars,
        !.assigned_to =
            IF body.assigned_to = JsonUndefined THEN @
            ELSE IF body.assigned_to \in {JsonNull, JsonString(<<>>)}
            THEN JsonNull
            ELSE body.assigned_to]

\* comment && comment.trim() throws: the comment is truthy and no string
CommentThrows(comment) == JsonTruthy(comment) /\ comment.kind # "string"

\* the positions of the rows of requests with the id
RowsWithId(rows, id) == {k \in 1..Len(rows) : rows[k].id = id}

\* the row the handler inserts
NewRow(body, route) ==
    [date |-> body.date.chars,
     list |-> JSONparse(ListField(body, route).chars).value,
     weather |-> IF Truthy(body.weather)
                 THEN JSONparse(body.weather.chars).value ELSE Null,
     photos |-> <<>>]

\* the requests: keys, headers, query parameters and bodies
Key == <<"s", "3", "c">>

WrongKey == <<"b", "a", "d">>

KeyConfigs == {Absent, Text(<<>>), Text(Key)}

XKeyValues == {Absent, Text(<<>>), Text(Key), Text(WrongKey)}

AuthorizationValues ==
    {Absent, Text(BearerPrefix \o Key), Text(BearerPrefix \o WrongKey),
     Text(Key), Text(BearerPrefix),
     Text(<<"B", "a", "s", "i", "c", " ">> \o Key),
     Text(<<"s">> \o BearerPrefix \o <<"3", "c">>)}

HeaderValues ==
    {[x_admin_api_key |-> x, authorization |-> a] :
        x \in XKeyValues, a \in AuthorizationValues}

LimitValues ==
    {Absent, Text(<<>>), Text(<<"7", "5">>), Text(<<"1", "5", "0">>),
     Text(<<"a", "b", "c">>), Text(<<"0">>), Text(<<"-", "5">>),
     Text(<<"1">>), Text(<<"1", "0", "0">>), Text(<<"1", "0", "1">>),
     Text(<<"1", "2", "a", "b">>), Text(<<" ", "4", "2">>)}

OffsetValues ==
    {Absent, Text(<<"0">>), Text(<<"2", "0">>), Text(<<"-", "3">>),
     Text(<<"a", "b", "c">>)}

NoQuery == [limit |-> Absent, offset |-> Absent]

ListTexts ==
    {Absent, Text(<<"[", "]">>), Text(<<"[", "1", "]">>), Text(<<"{", "}">>),
     Text(<<"x">>)}

WeatherTexts == {Absent, Text(<<"{", "}">>), Text(<<"x">>)}

DateTexts ==
    {Text(<<"2", "0", "2", "4", "-", "0", "1", "-", "1", "5">>),
     Text(<<"2", "0", "2", "4", "-", "1", "-", "5">>)}

NameTexts == {Absent, Text(<<"A", "n", "n">>)}

Body(name, date, list, weather, route) ==
    [employee_name |-> name, date |-> date,
     location |-> Text(<<"N">>), crop |-> Text(<<"C">>),
     inputs |-> IF route = "/api/admin/treatment-logs" THEN list ELSE Absent,
     pests_observed |->
         IF route = "/api/admin/scouting-logs" THEN list ELSE Absent,
     weather |-> weather,
     reporter_name |-> Absent, contact |-> Absent, plant_type |-> Absent,
     symptoms |-> Absent, urgency |-> Absent,
     status |-> JsonUndefined, assigned_to |-> JsonUndefined,
     comment |-> JsonUndefined]

NoBody == Body(Absent, Absent, Absent, Absent, "")

\* the body of an anonymous request
RequestBody(name, urgency) ==
    [NoBody EXCEPT !.reporter_name = name, !.contact = Text(<<"5", "5", "5">>),
                   !.plant_type = Text(<<"r", "o", "s", "e">>),
                   !.symptoms = Text(<<"r", "u", "s", "t">>),
                   !.urgency = urgency]

UrgencyTexts ==
    {Absent, Text(Low), Text(Critical), Text(<<"u", "r", "g", "e", "n", "t">>)}

NoParams == [id |-> <<>>]

\* the most rows the requests table gets
MaxRows == 1

\* the body of a PATCH
PatchBody(status, assigned_to, comment) ==
    [NoBody EXCEPT !.status = status, !.assigned_to = assigned_to,
                   !.comment = comment]

StatusValues ==
    {JsonUndefined, JsonString(Closed), JsonString(<<"d", "o", "n", "e">>)}

AssigneeValues ==
    {JsonUndefined, JsonNull, JsonString(<<>>), JsonString(RowId(7)),
     JsonString(<<"b", "o", "b">>)}

CommentValues ==
    {JsonUndefined, JsonString(<<"o", "k">>), JsonNumber(<<"5">>)}

\* the ids asked for: those of the rows the table can hold, one of no row,
\* and one that is no UUID
IdValues == {RowId(k) : k \in 1..(MaxRows + 1)} \cup {<<"1">>}

PostRoutes == {"/api/admin/treatment-logs", "/api/admin/scouting-logs"}

ListRoutes == PostRoutes \cup {"/api/admin/requests"}

FileCounts == {0, 2}

PostRequests ==
    {[method |-> "POST", route |-> r, params |-> NoParams, headers |-> h,
      query |-> NoQuery, body |-> Body(n, d, l, w, r), files |-> f] :
        r \in PostRoutes, h \in HeaderValues, n \in NameTexts,
        d \in DateTexts, l \in ListTexts, w \in WeatherTexts,
        f \in FileCounts}

AnonymousRequests(headers, files) ==
    {[method |-> "POST", route |-> "/api/admin/requests/anonymous",
      params |-> NoParams, headers |-> h, query |-> NoQuery,
      body |-> RequestBody(n, u), files |-> f] :
        h \in headers, n \in NameTexts, u \in UrgencyTexts, f \in files}

PatchRequests(headers) ==
    {[method |-> "PATCH", route |-> "/api/admin/requests/:id",
      params |-> [id |-> i], headers |-> h, query |-> NoQuery,
      body |-> PatchBody(s, a, c), files |-> 0] :
        i \in IdValues, h \in headers, s \in StatusValues,
        a \in AssigneeValues, c \in CommentValues}

\* headers with the key
KeyedHeaders == {[x_admin_api_key |-> Text(Key), authorization |-> Absent]}

AdminRequests ==
    AnonymousRequests(KeyedHeaders, {0}) \cup PatchRequests(KeyedHeaders)

GetRequests ==
    {[method |-> "GET", route |-> r, params |-> NoParams, headers |-> h,
      query |-> [limit |-> l, offset |-> o], body |-> NoBody, files |-> 0] :
        r \in ListRoutes, h \in HeaderValues, l \in LimitValues,
        o \in OffsetValues}

EmptyDb ==
    [treatment_logs |-> <<>>, scouting_logs |-> <<>>, requests |-> <<>>,
     request_comments |-> <<>>]

NoQuerySent == [table |-> "", from |-> 0, to |-> 0]

ApiInit ==
    /\ IdleExceptApi
    /\ ADMIN_API_KEY \in KeyConfigs
    /\ req \in PostRequests \cup GetRequests
               \cup AnonymousRequests(HeaderValues, FileCounts)
    /\ stage = "auth"
    /\ res = NoResponse
    /\ query = NoQuerySent
    /\ db = EmptyDb
    /\ storage = {}

\* the middleware, on every /api/admin route
RequireAdminAuth ==
    /\ stage = "auth"
    /\ LET outcome == requireAdminAuth(ADMIN_API_KEY, req.headers)
       IN  CASE outcome = "next" ->
                    /\ stage' = "handler"
                    /\ res' = res
             [] outcome = "401" ->
                    /\ stage' = "done"
                    /\ res' = Response(401,
                           "Missing API key. Provide X-Admin-API-Key header.")
             [] outcome = "403" ->
                    /\ stage' = "done"
                    /\ res' = Response(403, "Invalid API key")
    /\ UNCHANGED <<ADMIN_API_KEY, req, query, db, storage>>
    /\ UNCHANGED exceptApi

\* GET /api/admin/requests, /treatment-logs, /scouting-logs: the page is
\* asked of the database, which answers or fails
ListRows ==
    /\ stage = "handler"
    /\ req.method = "GET"
    /\ query' = Range(TableOf(req.route), req.query.limit, req.query.offset)
    /\ \E answered \in BOOLEAN :
           res' = IF answered
                  THEN [Response(200, "") EXCEPT !.pagination =
                           <<ParsedLimit(req.query.limit),
                             ParsedOffset(req.query.offset)>>]
                  ELSE Response(500, "Database error")
    /\ stage' = "done"
    /\ UNCHANGED <<ADMIN_API_KEY, req, db, storage>>
    /\ UNCHANGED exceptApi

\* POST /api/admin/treatment-logs, /scouting-logs up to the insert: the
\* validations, then the insert, which the database carries out or refuses
CreateLog ==
    /\ stage = "handler"
    /\ req.method = "POST"
    /\ req.route \in PostRoutes
    /\ IF ValidationError(req.body, req.route) # ""
       THEN /\ res' = Response(400, ValidationError(req.body, req.route))
            /\ stage' = "done"
            /\ db' = db
       ELSE \E inserted \in BOOLEAN :
                IF ~inserted
                THEN /\ res' = Response(500, "Database error")
                     /\ stage' = "done"
                     /\ db' = db
                ELSE /\ db' = [db EXCEPT ![TableOf(req.route)] =
                                  Append(@, NewRow(req.body, req.route))]
                     /\ IF req.files > 0
                        THEN stage' = "upload" /\ res' = res
                        ELSE /\ stage' = "done"
                             /\ res' = [Response(201, "created successfully")
                                           EXCEPT !.id = Len(db'[TableOf(req.route)])]
    /\ UNCHANGED <<ADMIN_API_KEY, req, query, storage>>
    /\ UNCHANGED exceptApi

\* POST /api/admin/requests/anonymous up to the insert: the validations, then
\* the insert of a pending request without reporter, which the database
\* carries out or refuses.  The response carries the position of the row in
\* the table for its id
CreateRequest ==
    /\ stage = "handler"
    /\ req.method = "POST"
    /\ req.route = "/api/admin/requests/anonymous"
    /\ IF RequestValidationError(req.body) # ""
       THEN /\ res' = Response(400, RequestValidationError(req.body))
            /\ stage' = "done"
            /\ db' = db
       ELSE \E inserted \in BOOLEAN :
                IF ~inserted
                THEN /\ res' = Response(500, "Database error")
                     /\ stage' = "done"
                     /\ db' = db
                ELSE /\ db' = [db EXCEPT !.requests =
                                  Append(@, NewRequest(req.body,
                                                RowId(Len(db.requests) + 1)))]
                     /\ IF req.files > 0
                        THEN stage' = "upload" /\ res' = res
                        ELSE /\ stage' = "done"
                             /\ res' = [Response(201, "created successfully")
                                           EXCEPT !.id = Len(db'.requests)]
    /\ UNCHANGED <<ADMIN_API_KEY, req, query, storage>>
    /\ UNCHANGED exceptApi

\* a Promise.all that resolves whatever its promises do
AllStored_Always(stored, files) == TRUE

\* Promise.all(uploadPromises) resolves: no upload has thrown
AllStored(stored, files) == stored = 1..files

\* the uploads of the files (Promise.all over one upload per file): each one
\* stores its file or fails; when all succeed the row gets the URLs, when
\* one fails the response carries no photo, and a warning.  photos stands for
\* the images of a request too
UploadPhotos ==
    /\ stage = "upload"
    /\ \E stored \in SUBSET (1..req.files) :
           LET t == TableOf(req.route)
               id == Len(db[t])
               urls == [i \in 1..req.files |-> <<t, id, i>>]
           IN  /\ storage' = storage \cup {urls[i] : i \in stored}
               /\ IF AllStored(stored, req.files)
                  THEN /\ \E updated \in BOOLEAN :
                            db' = IF updated
                                  THEN [db EXCEPT ![t][id].photos = urls]
                                  ELSE db
                       /\ res' = [Response(201, "created successfully")
                                     EXCEPT !.id = id, !.photos = urls]
                  ELSE /\ db' = db
                       /\ res' = [Response(201,
                                         "created but photo upload failed")
                                     EXCEPT !.id = id, !.warning = TRUE]
    /\ stage' = "done"
    /\ UNCHANGED <<ADMIN_API_KEY, req, query>>
    /\ UNCHANGED exceptApi

\* PATCH /api/admin/requests/:id: the id is validated, the row looked up
\* (a lookup that fails answers 404 as well), status and assigned_to are
\* validated, the update is sent when there is something to update, which
\* the database carries out or refuses, and the comment is read but stored
\* nowhere
UpdateRequest ==
    /\ stage = "handler"
    /\ req.method = "PATCH"
    /\ LET id == req.params.id
           hits == RowsWithId(db.requests, id)
       IN  IF ~UuidRegexTest(id)
           THEN /\ res' = Response(400, "Invalid request ID format")
                /\ db' = db
           ELSE \E found \in {k \in BOOLEAN : k => hits # {}},
                   updated \in BOOLEAN :
                    IF ~found
                    THEN /\ res' = Response(404, "Request not found")
                         /\ db' = db
                    ELSE /\ db' =
                              IF UpdateSent(req.body) /\ updated
                              THEN [db EXCEPT !.requests =
                                       [k \in 1..Len(@) |->
                                           IF k \in hits
                                           THEN Updated(@[k], req.body)
                                           ELSE @[k]]]
                              ELSE db
                         /\ res' =
                              IF PatchValidationError(req.body) # ""
                              THEN Response(400,
                                       PatchValidationError(req.body))
                              ELSE IF UpdateSent(req.body) /\ ~updated
                              THEN Response(500, "Database error")
                              ELSE IF CommentThrows(req.body.comment)
                              THEN Response(500, "Internal server error")
                              ELSE Response(200,
                                       "Request updated successfully")
    /\ stage' = "done"
    /\ UNCHANGED <<ADMIN_API_KEY, req, query, storage>>
    /\ UNCHANGED exceptApi

\* the next request arrives, once the one before has been answered
Receive ==
    /\ stage = "done"
    /\ \E next \in AdminRequests :
           /\ next.method = "POST" => Len(db.requests) < MaxRows
           /\ req' = next
    /\ stage' = "auth"
    /\ res' = NoResponse
    /\ UNCHANGED <<ADMIN_API_KEY, query, db, storage>>
    /\ UNCHANGED exceptApi

RequestsInit ==
    /\ IdleExceptApi
    /\ ADMIN_API_KEY = Text(Key)
    /\ req \in AdminRequests
    /\ stage = "auth"
    /\ res = NoResponse
    /\ query = NoQuerySent
    /\ db = EmptyDb
    /\ storage = {}

RequestsNext ==
    \/ Receive
    \/ RequireAdminAuth
    \/ CreateRequest
    \/ UpdateRequest

RequestsSpec == RequestsInit /\ [][RequestsNext]_vars

ApiNext ==
    \/ RequireAdminAuth
    \/ ListRows
    \/ CreateLog
    \/ CreateRequest
    \/ UploadPhotos

ApiSpec == ApiInit /\ [][ApiNext]_vars

(***************************************************************************)
(* The service worker.  It is installed, activated, and then handles fetch *)
(* events one after another; a cache.put started by a handler completes    *)
(* later, at any time.  The caches are the origin's list of named caches,  *)
(* in creation order; an entry is keyed by the request (method and URL)    *)
(* and holds the status of the stored response.  The cache here stores     *)
(* whatever it is given, so nothing below relies on the Cache API's own    *)
(* refusal of requests that are not GET.  The network answers with an ok   *)
(* response, a response that is not ok, or fails.                          *)
(***************************************************************************)
MaxEvents == 2

CACHE_NAME == "lukas-hort-v34"

OldCacheNames == {"lukas-hort-v32", "lukas-hort-v33"}

\* three of the URLs of urlsToCache
urlsToCache == {"/", "/index.html", "/plants.json"}

RequestUrls == {"/index.html", "/plants.json", "/api/admin/requests"}

Requests ==
    {[method |-> m, mode |-> d, url |-> u] :
        m \in {"GET", "POST"}, d \in {"navigate", "cors"}, u \in RequestUrls}

NetworkOutcomes == {200, 404, 0}

NetworkFailed(status) == status = 0

EntryKey(request) == <<request.method, request.url>>

CacheNames(cs) == {cs[i].name : i \in 1..Len(cs)}

\* caches.open(name): the cache is created, empty, when there is none
Open(cs, name) ==
    IF name \in CacheNames(cs) THEN cs
    ELSE Append(cs, [name |-> name, entries |-> <<>>])

\* cache.put(request, response) on the cache called name
Put(cs, name, key, status) ==
    [i \in 1..Len(cs) |->
        IF cs[i].name = name
        THEN [cs[i] EXCEPT !.entries = (key :> status) @@ @]
        ELSE cs[i]]

\* caches.match(request): the entry of the first cache that has one, 0 for
\* undefined
Match(cs, key) ==
    LET hits == {i \in 1..Len(cs) : key \in DOMAIN cs[i].entries}
    IN  IF hits = {} THEN 0
        ELSE cs[CHOOSE i \in hits : \A j \in hits : i <= j].entries[key]

\* caches.delete(name)
Delete(cs, name) == SelectSeq(cs, LAMBDA c : c.name # name)

\* a cache left by an earlier version of the worker
OldCache(name) ==
    [name |-> name,
     entries |-> (<<"GET", "/index.html">> :> 200)
                     @@ (<<"GET", "/plants.json">> :> 200)]

NoEvent ==
    [method |-> "", mode |-> "", url |-> "", pc |-> "idle",
     respondedWith |-> "none", status |-> 0, fetched |-> -1]

\* a handler that treats no request as a navigation
IsNavigation_Never(request) == FALSE

\* req.mode === 'navigate'
IsNavigation(request) == request.mode = "navigate"

\* a handler that handles every method
MethodIgnored_Never(request) == FALSE

\* if (event.request.method !== 'GET') return;
MethodIgnored(request) == request.method # "GET"

SwInit ==
    /\ IdleExceptSw
    /\ caches \in {<<>>, <<OldCache("lukas-hort-v33")>>,
                   <<OldCache("lukas-hort-v32"), OldCache("lukas-hort-v33")>>}
    /\ lifecycle = "installing"
    /\ deleting = {}
    /\ deleted = {}
    /\ event = NoEvent
    /\ puts = {}
    /\ handled = 0

\* install: caches.open(CACHE_NAME).then(cache => cache.addAll(urlsToCache));
\* addAll stores all the responses, or none when a request fails or is not ok
Install ==
    /\ lifecycle = "installing"
    /\ \E added \in BOOLEAN :
           IF added
           THEN /\ caches' = [i \in 1..Len(Open(caches, CACHE_NAME)) |->
                                 LET c == Open(caches, CACHE_NAME)[i]
                                 IN  IF c.name = CACHE_NAME
                                     THEN [c EXCEPT !.entries =
                                              [k \in {<<"GET", u>> :
                                                         u \in urlsToCache}
                                                  |-> 200] @@ @]
                                     ELSE c]
                /\ lifecycle' = "installed"
           ELSE /\ caches' = Open(caches, CACHE_NAME)
                /\ lifecycle' = "redundant"
    /\ UNCHANGED <<deleting, deleted, event, puts, handled>>
    /\ UNCHANGED exceptSw

\* an activate handler that deletes nothing
StaleKeys_None(cs) == {}

\* keys.map(key => { if (key !== CACHE_NAME) return caches.delete(key); })
StaleKeys(cs) == {k \in CacheNames(cs) : k # CACHE_NAME}

\* activate: caches.keys(), then one caches.delete per key that is not
\* CACHE_NAME
Activate ==
    /\ lifecycle = "installed"
    /\ lifecycle' = "activating"
    /\ deleting' = StaleKeys(caches)
    /\ UNCHANGED <<caches, deleted, event, puts, handled>>
    /\ UNCHANGED exceptSw

DeleteCache ==
    /\ lifecycle = "activating"
    /\ \E k \in deleting :
           /\ caches' = Delete(caches, k)
           /\ deleting' = deleting \ {k}
           /\ deleted' = deleted \cup {k}
    /\ UNCHANGED <<lifecycle, event, puts, handled>>
    /\ UNCHANGED exceptSw

\* the promise passed to event.waitUntil settles: the worker is active
Activated ==
    /\ lifecycle = "activating"
    /\ deleting = {}
    /\ lifecycle' = "activated"
    /\ UNCHANGED <<caches, deleting, deleted, event, puts, handled>>
    /\ UNCHANGED exceptSw

Responded(request, with, status) ==
    [method |-> request.method, mode |-> request.mode, url |-> request.url,
     pc |-> "done", respondedWith |-> with, status |-> status,
     fetched |-> -1]

\* the fetch listener, up to its first promise: a request that is not GET is
\* left to the browser; a navigation starts a network fetch; any other
\* request is answered from the cache when it has an entry, and starts a
\* network fetch when it has none
OnFetch ==
    /\ lifecycle = "activated"
    /\ event.pc \in {"idle", "done"}
    /\ handled < MaxEvents
    /\ handled' = handled + 1
    /\ \E request \in Requests :
           event' =
               IF MethodIgnored(request)
               THEN Responded(request, "none", 0)
               ELSE IF IsNavigation(request)
               THEN [Responded(request, "none", 0) EXCEPT !.pc = "network"]
               ELSE IF Match(caches, EntryKey(request)) # 0
               THEN Responded(request, "cache",
                              Match(caches, EntryKey(request)))
               ELSE [Responded(request, "none", 0) EXCEPT !.pc = "network"]
    /\ UNCHANGED <<caches, lifecycle, deleting, deleted, puts>>
    /\ UNCHANGED exceptSw

\* fetch(req) settles.  A response, ok or not, is returned and a put of its
\* copy is started; a failed navigation falls back to the cached copy, or to
\* the cached /index.html; any other failure rejects.  fetched records what
\* the network fetch of the event settled with (-1 when none was made)
NetworkSettles ==
    /\ event.pc = "network"
    /\ \E status \in NetworkOutcomes :
           IF ~NetworkFailed(status)
           THEN /\ event' = [Responded(event, "network", status)
                                EXCEPT !.fetched = status]
                /\ puts' = puts \cup {[key |-> EntryKey(event),
                                       status |-> status]}
           ELSE /\ puts' = puts
                /\ event' =
                       [(IF ~IsNavigation(event)
                         THEN Responded(event, "error", 0)
                         ELSE IF Match(caches, EntryKey(event)) # 0
                         THEN Responded(event, "cache",
                                        Match(caches, EntryKey(event)))
                         ELSE IF Match(caches, <<"GET", "/index.html">>) # 0
                         THEN Responded(event, "cache",
                                  Match(caches, <<"GET", "/index.html">>))
                         ELSE Responded(event, "error", 0))
                        EXCEPT !.fetched = status]
    /\ UNCHANGED <<caches, lifecycle, deleting, deleted, handled>>
    /\ UNCHANGED exceptSw

\* caches.open(CACHE_NAME).then(cache => cache.put(req, copy)) completes
CachePut ==
    /\ \E p \in puts :
           /\ caches' = Put(Open(caches, CACHE_NAME), CACHE_NAME,
                            p.key, p.status)
           /\ puts' = puts \ {p}
    /\ UNCHANGED <<lifecycle, deleting, deleted, event, handled>>
    /\ UNCHANGED exceptSw

SwNext ==
    \/ Install
    \/ Activate
    \/ DeleteCache
    \/ Activated
    \/ OnFetch
    \/ NetworkSettles
    \/ CachePut

SwSpec == SwInit /\ [][SwNext]_vars

(***************************************************************************)
(* The loader of plants.json (plants.js).  Calls of loadPlants run          *)
(* concurrently on the page: each runs to its first await, and goes on     *)
(* when the promise it awaits settles.  An array is a JavaScript object:   *)
(* it is known by the call that created it, and by its plants.             *)
(***************************************************************************)
\* the number of calls of loadPlants
MaxLoads == 3

Loads == 1..MaxLoads

\* window.plantsMaster before any load
NotSet == [set |-> FALSE, by |-> 0, plants |-> <<>>]

\* the array with the plants that call c created, or got from response.json()
ArrayBy(c, plants) == [set |-> TRUE, by |-> c, plants |-> plants]

\* what fetch('plants.json') settles with: a response that is ok, one that is
\* not, or a rejection
FetchOutcomes == {"ok", "not ok", "rejected"}

\* what response.json() settles with: an array of plants, a value that is no
\* array, or a SyntaxError
JsonOutcomes ==
    {[kind |-> "array", plants |-> <<>>],
     [kind |-> "array", plants |-> <<"rose", "fern">>],
     [kind |-> "object", plants |-> <<>>],
     [kind |-> "rejected", plants |-> <<>>]}

IdleLoad == [pc |-> "idle", value |-> NotSet, master |-> NotSet]

\* a guard that takes the fetch for done as soon as one has started
AlreadyLoaded_OrLoading(master, started) == master.set \/ started > 0

\* window.plantsMaster && Array.isArray(window.plantsMaster); only arrays are
\* ever assigned to plantsMaster
AlreadyLoaded(master, started) == master.set

\* the call returns the plantsMaster it has just read or assigned; master
\* records window.plantsMaster at this moment
ReturnMaster(load, master) ==
    [load EXCEPT !.pc = "returned", !.value = master, !.master = master]

\* the promise of the call rejects
RejectLoad(load, master) ==
    [load EXCEPT !.pc = "rejected", !.master = master]

PlantsInit ==
    /\ IdleExceptPlants
    /\ plantsMaster = NotSet
    /\ loads = [c \in Loads |-> IdleLoad]
    /\ fetches = 0

\* loadPlants is called: it returns plantsMaster when that is an array, and
\* starts the fetch of plants.json otherwise
LoadPlants ==
    /\ \E c \in Loads :
           /\ loads[c].pc = "idle"
           /\ IF AlreadyLoaded(plantsMaster, fetches)
              THEN /\ loads' = [loads EXCEPT
                                  ![c] = ReturnMaster(@, plantsMaster)]
                   /\ fetches' = fetches
              ELSE /\ loads' = [loads EXCEPT ![c].pc = "fetch"]
                   /\ fetches' = fetches + 1
    /\ UNCHANGED plantsMaster
    /\ UNCHANGED exceptPlants

\* the fetch of a call settles: a response that is not ok sets plantsMaster
\* to a new empty array, which the call returns; a rejection rejects the call
FetchSettles ==
    /\ \E c \in Loads, outcome \in FetchOutcomes :
           /\ loads[c].pc = "fetch"
           /\ CASE outcome = "ok" ->
                       /\ loads' = [loads EXCEPT ![c].pc = "json"]
                       /\ plantsMaster' = plantsMaster
                  [] outcome = "not ok" ->
                       /\ plantsMaster' = ArrayBy(c, <<>>)
                       /\ loads' = [loads EXCEPT
                                       ![c] = ReturnMaster(@, plantsMaster')]
                  [] outcome = "rejected" ->
                       /\ loads' = [loads EXCEPT
                                       ![c] = RejectLoad(@, plantsMaster)]
                       /\ plantsMaster' = plantsMaster
    /\ UNCHANGED fetches
    /\ UNCHANGED exceptPlants

\* response.json() of a call settles: plantsMaster becomes the data when it
\* is an array and a new empty array when it is not, and the call returns
\* it; a body that is no JSON rejects the call
JsonSettles ==
    /\ \E c \in Loads, data \in JsonOutcomes :
           /\ loads[c].pc = "json"
           /\ IF data.kind = "rejected"
              THEN /\ loads' = [loads EXCEPT ![c] = RejectLoad(@, plantsMaster)]
                   /\ plantsMaster' = plantsMaster
              ELSE /\ plantsMaster' =
                          ArrayBy(c, IF data.kind = "array"
                                     THEN data.plants ELSE <<>>)
                   /\ loads' = [loads EXCEPT
                                  ![c] = ReturnMaster(@, plantsMaster')]
    /\ UNCHANGED fetches
    /\ UNCHANGED exceptPlants

PlantsNext ==
    \/ LoadPlants
    \/ FetchSettles
    \/ JsonSettles

PlantsSpec == PlantsInit /\ [][PlantsNext]_vars

(***************************************************************************)
(* Vocabulary of the properties.                                           *)
(***************************************************************************)
MixCall == fn = "calculateMix" /\ result # Pending

GranularCall == fn = "calculateGranular" /\ result # Pending

\* the outcome is the error result {error: msg} and nothing else
IsErrorResult(r, msg) ==
    r.kind = "return" /\ DOMAIN r.value = {"error"} /\ r.value.error = msg

MixSuccessFields ==
    {"tankSize", "sprayVolume", "estimatedCoverageSqFt", "mixItems", "mixText"}

GranularSuccessFields ==
    {"productName", "areaSqFt", "areaThousands", "ratePerThousandSqFt",
     "totalLbs"}

IsMixSuccess(r) == r.kind = "return" /\ DOMAIN r.value = MixSuccessFields

IsGranularSuccess(r) ==
    r.kind = "return" /\ DOMAIN r.value = GranularSuccessFields

\* a quantity that is absent (undefined or null), zero or negative
AbsentOrNonPositive(v) ==
    \/ v \in {Undefined, Null}
    \/ v.t = "number" /\ ~IsNaN(v) /\ v.n <= 0

\* a strictly-positive number
StrictlyPositive(v) == v.t = "number" /\ v.n > 0

\* a product list: a non-empty array none of whose elements is null or
\* undefined
IsProductList(v) ==
    /\ v.t = "array"
    /\ Len(v.elems) > 0
    /\ \A i \in 1..Len(v.elems) : v.elems[i].t \notin {"undefined", "null"}

\* C1: a tank size that is absent, zero or negative always yields the tank
\* size error, whatever the product list is (empty, not a list, or valid).
C1_TankSizeErrorWins ==
    (MixCall /\ AbsentOrNonPositive(args[1]))
        => IsErrorResult(result, TankSizeError)

\* a negative tank size with a valid product list, and a zero tank size
\* with an empty list (both checks fail)
C1_Witness ==
    /\ MixCall
    /\ args[1] = Num(-5, 1)
    /\ args[2] = Arr(<<Chem1(Num(5, 2), Undefined)>>)
    /\ IsErrorResult(result, TankSizeError)

\* C2: with a strictly-positive tank size, an empty list or a value that is
\* no list yields the "Select at least one chemical." error.
C2_NoChemicalError ==
    (/\ MixCall
     /\ StrictlyPositive(args[1])
     /\ (args[2].t # "array" \/ Len(args[2].elems) = 0))
        => IsErrorResult(result, NoChemicalError)

C2_Witness ==
    /\ MixCall
    /\ args[1] = Num(25, 1)
    /\ args[2] = Arr(<<>>)
    /\ IsErrorResult(result, NoChemicalError)

\* C3: for a strictly-positive tank size g and a product list, the result
\* is a success with tankSize = g, sprayVolume = 1 and
\* estimatedCoverageSqFt = g * 1000, and every product with a
\* strictly-positive numeric rate r has the computed item ratePerGallon = r,
\* flOz = r * g, ml = flOz * 29.57.
C3_ComputedAmounts ==
    (MixCall /\ StrictlyPositive(args[1]) /\ IsProductList(args[2]))
        => /\ IsMixSuccess(result)
           /\ result.value.tankSize = args[1]
           /\ result.value.sprayVolume = Num(1, 1)
           /\ result.value.estimatedCoverageSqFt
                = NumMul(args[1], Num(1000, 1))
           /\ \A i \in 1..Len(args[2].elems) :
                LET r == Get(args[2].elems[i], "defaultRatePerGallon")
                    item == result.value.mixItems[i]
                IN  StrictlyPositive(r)
                      => /\ item.hasStoredRate = TRUE
                         /\ item.ratePerGallon = r
                         /\ item.flOz = NumMul(r, args[1])
                         /\ item.ml = NumMul(item.flOz, Num(2957, 100))

\* 25 gallons at 2.5 fl oz/gal: 62.5 fl oz, 1848.125 mL, 25000 sq ft
C3_Witness ==
    /\ MixCall
    /\ args[1] = Num(25, 1)
    /\ args[2] = Arr(<<Chem1(Num(5, 2), Undefined)>>)
    /\ IsMixSuccess(result)
    /\ result.value.mixItems[1].flOz = Num(125, 2)
    /\ result.value.mixItems[1].ml = Num(14785, 8)
    /\ result.value.estimatedCoverageSqFt = Num(25000, 1)

\* a rate that is absent, no number, not-a-number, zero or negative
UnusableRate(r) == r.t # "number" \/ IsNaN(r) \/ r.n <= 0

\* C4: with a valid tank size and a product list, every product whose
\* defaultRatePerGallon is absent, no number, not-a-number, zero or negative
\* yields at its position a fallback item (hasStoredRate = false, labelRate
\* its mixRate or the default text), and the result is a success.
C4_FallbackForUnusableRate ==
    (MixCall /\ StrictlyPositive(args[1]) /\ IsProductList(args[2]))
        => /\ IsMixSuccess(result)
           /\ \A i \in 1..Len(args[2].elems) :
                LET chem == args[2].elems[i]
                    item == result.value.mixItems[i]
                    mixRate == Get(chem, "mixRate")
                IN  UnusableRate(Get(chem, "defaultRatePerGallon"))
                      => /\ item.hasStoredRate = FALSE
                         /\ DOMAIN item
                              = {"id", "name", "labelRate", "hasStoredRate"}
                         /\ item.labelRate
                              = IF mixRate \in {Undefined, Str("")}
                                THEN DefaultLabelRate ELSE mixRate
                         /\ item.labelRate.s # ""

\* C5: in every success result mixItems has one entry per input product,
\* the i-th carrying the id and name of the i-th input product.
C5_OrderPreserved ==
    (MixCall /\ IsMixSuccess(result))
        => /\ Len(result.value.mixItems) = Len(args[2].elems)
           /\ \A i \in 1..Len(args[2].elems) :
                /\ result.value.mixItems[i].id = Get(args[2].elems[i], "id")
                /\ result.value.mixItems[i].name
                     = Get(args[2].elems[i], "name")

\* two products that share an id, a fallback one before a computed one
C5_Witness ==
    /\ MixCall
    /\ args[2] = Arr(<<Chem1(Undefined, Str("See label")),
                       Chem1(Num(5, 2), Undefined)>>)
    /\ IsMixSuccess(result)
    /\ result.value.mixItems[1].hasStoredRate = FALSE
    /\ result.value.mixItems[2].hasStoredRate = TRUE

\* C6: an area that is absent, zero or negative always yields the area
\* error, whatever the rate is (valid or not).
C6_AreaErrorWins ==
    (GranularCall /\ AbsentOrNonPositive(args[1]))
        => IsErrorResult(result, AreaError)

\* a negative area with a valid rate
C6_Witness ==
    /\ GranularCall
    /\ args[1] = Num(-5, 1)
    /\ args[2] = Num(4, 1)
    /\ IsErrorResult(result, AreaError)

\* a rate that is absent, zero, negative or not-a-number
AbsentOrUnusableRate(r) == AbsentOrNonPositive(r) \/ IsNaN(r)

\* C7 as stated: every rate that is absent, zero, negative or not-a-number
\* yields the rate error (whatever the area is).
C7_RateErrorAlways ==
    (GranularCall /\ AbsentOrUnusableRate(args[2]))
        => IsErrorResult(result, RateError)

\* C7 amended: when the area passes the area check, every rate that is
\* absent, zero, negative or not-a-number yields the rate error and no
\* success field.
C7_RateErrorAfterArea ==
    (GranularCall /\ ~AreaRejected(args[1]) /\ AbsentOrUnusableRate(args[2]))
        => IsErrorResult(result, RateError)

\* a valid area with a not-a-number rate
C7_Witness ==
    /\ GranularCall
    /\ args[1] = Num(5000, 1)
    /\ args[2] = NaN
    /\ IsErrorResult(result, RateError)

\* C8: for a strictly-positive area a and rate r the success result echoes
\* a and r, has areaThousands = a / 1000 and totalLbs = areaThousands * r,
\* and productName is the third argument, or "" when it is omitted.
C8_GranularAmounts ==
    (GranularCall /\ StrictlyPositive(args[1]) /\ StrictlyPositive(args[2]))
        => /\ IsGranularSuccess(result)
           /\ result.value.areaSqFt = args[1]
           /\ result.value.ratePerThousandSqFt = args[2]
           /\ result.value.areaThousands = NumDiv(args[1], Num(1000, 1))
           /\ result.value.totalLbs
                = NumMul(result.value.areaThousands, args[2])
           /\ result.value.productName
                = IF args[3] = Undefined THEN Str("") ELSE args[3]
           /\ (args[1] = Num(5000, 1) /\ args[2] = Num(4, 1))
                => /\ result.value.areaThousands = Num(5, 1)
                   /\ result.value.totalLbs = Num(20, 1)
           /\ (args[1] = Num(2500, 1) /\ args[2] = Num(7, 2))
                => result.value.totalLbs = Num(35, 4)

\* 2500 sq ft at 3.5 lbs per 1,000 sq ft, product name omitted: 8.75 lbs
C8_Witness ==
    /\ GranularCall
    /\ args = <<Num(2500, 1), Num(7, 2), Undefined>>
    /\ IsGranularSuccess(result)
    /\ result.value.areaThousands = Num(5, 2)
    /\ result.value.totalLbs = Num(35, 4)
    /\ result.value.productName = Str("")

\* C9: no call throws; every call returns a value.
C9_NeverThrows == result.kind # "throw"

\* C10: in every success result every numeric field is a finite number.
C10_NumericFieldsFinite ==
    /\ (MixCall /\ IsMixSuccess(result))
        => /\ IsFinite(result.value.tankSize)
           /\ IsFinite(result.value.sprayVolume)
           /\ IsFinite(result.value.estimatedCoverageSqFt)
           /\ \A i \in 1..Len(result.value.mixItems) :
                LET item == result.value.mixItems[i]
                IN  item.hasStoredRate
                      => /\ IsFinite(item.ratePerGallon)
                         /\ IsFinite(item.flOz)
                         /\ IsFinite(item.ml)
    /\ (GranularCall /\ IsGranularSuccess(result))
        => /\ IsFinite(result.value.areaSqFt)
           /\ IsFinite(result.value.areaThousands)
           /\ IsFinite(result.value.ratePerThousandSqFt)
           /\ IsFinite(result.value.totalLbs)

\* C11: every value calculateMix or calculateGranular returns is either an
\* error result (a non-empty error string and no other field) or a success
\* result (all the success fields and no error field), never both or
\* neither.
C11_ShapesExclusive ==
    ((MixCall \/ GranularCall) /\ result.kind = "return")
        => \/ /\ DOMAIN result.value = {"error"}
              /\ result.value.error # ""
           \/ /\ fn = "calculateMix"
              /\ DOMAIN result.value = MixSuccessFields
           \/ /\ fn = "calculateGranular"
              /\ DOMAIN result.value = GranularSuccessFields

\* an error result of calculateMix: the product list is empty
C11_Witness ==
    /\ MixCall
    /\ args = <<Num(10, 1), Arr(<<>>)>>
    /\ result.kind = "return"
    /\ DOMAIN result.value = {"error"}
    /\ "mixItems" \notin DOMAIN result.value

\* the number of computed items among the first i items
ComputedUpTo(items, i) ==
    Cardinality({j \in 1..i : items[j].hasStoredRate})

\* C14: mixText has exactly one line per computed item, in mixItems order,
\* and none for a fallback item; when every product is a fallback, mixText
\* is empty while mixItems still has one entry per product.
C14_MixTextLines ==
    (MixCall /\ IsMixSuccess(result))
        => LET items == result.value.mixItems
               text  == result.value.mixText
           IN  /\ Len(text) = ComputedUpTo(items, Len(items))
               /\ \A i \in 1..Len(items) :
                    items[i].hasStoredRate
                      => text[ComputedUpTo(items, i)]
                           = [name |-> items[i].name,
                              flOz |-> toFixed(items[i].flOz, 2),
                              ml |-> toFixed(items[i].ml, 0),
                              ratePerGallon |-> items[i].ratePerGallon]
               /\ (\A i \in 1..Len(items) : ~items[i].hasStoredRate)
                    => text = <<>> /\ Len(items) = Len(args[2].elems)

\* a fallback product before a computed one: one line, "62.50 fl oz
\* (~1848 mL)"
C14_Witness ==
    /\ MixCall
    /\ args = <<Num(25, 1), Arr(<<Chem2(Undefined, Str("See label")),
                                  Chem1(Num(5, 2), Undefined)>>)>>
    /\ IsMixSuccess(result)
    /\ Len(result.value.mixItems) = 2
    /\ Len(result.value.mixText) = 1
    /\ result.value.mixText[1].name = Str("Chemical 1")
    /\ result.value.mixText[1].flOz.units = 6250
    /\ result.value.mixText[1].ml.units = 1848

FormatCall ==
    /\ fn \in {"formatMixResultsHTML", "formatGranularResultsHTML"}
    /\ result # Pending

\* C15 as stated: for a result carrying an error string X, whatever string
\* X is, the formatter returns exactly X.
C15_ErrorVerbatimAnyString ==
    (FormatCall /\ "error" \in DOMAIN args[1])
        => result = Return(args[1].error)

\* C15 amended: for a result carrying a non-empty error string X the
\* formatter returns exactly X.
C15_ErrorVerbatim ==
    (FormatCall /\ "error" \in DOMAIN args[1] /\ args[1].error # "")
        => result = Return(args[1].error)

C15_Witness ==
    /\ FormatCall
    /\ fn = "formatGranularResultsHTML"
    /\ args = <<[error |-> "Test error"]>>
    /\ result = Return("Test error")

(***************************************************************************)
(* Properties of the calls on the heap (CallsSpec).                        *)
(***************************************************************************)
CallDone(c) == call[c].pc = "done"

MixSucceeded(c) ==
    /\ CallDone(c)
    /\ call[c].fn = "calculateMix"
    /\ "mixItems" \in DOMAIN call[c].result.value

\* the objects call c writes to: its mixItems array (from its allocation
\* on) and the records in it
Written(c) ==
    IF call[c].items = 0 THEN {}
    ELSE {call[c].items}
         \cup {heap[call[c].items].elems[i] :
                  i \in 1..Len(heap[call[c].items].elems)}

\* the objects call c reads: its arguments and the records of its list
ReadOf(c) ==
    {x.ref : x \in {y \in {call[c].args[i] : i \in 1..Len(call[c].args)} :
                       IsRef(y)}}
    \cup (IF call[c].fn = "calculateMix"
          THEN {Val(heap, call[c].args[2]).elems[i] :
                   i \in 1..Len(Val(heap, call[c].args[2]).elems)}
          ELSE {})

\* the addresses the result of call c refers to: what the call allocated,
\* and a tankSize that is a reference
ResultRefs(c) ==
    Written(c)
    \cup (IF MixSucceeded(c) /\ IsRef(call[c].result.value.tankSize)
          THEN {call[c].result.value.tankSize.ref} ELSE {})

\* C12: the calls leave the caller's objects as the caller wrote them; no
\* result refers to an object of the caller; and a returned result, read
\* through the heap, stays what it was at the return, whatever the caller
\* does to its objects afterwards.  Violated: a tank size passed as an object
\* (the array [5]) passes the validation and is returned by reference.
C12_NoSharedStructure ==
    /\ \A a \in InputAddrs : heap[a] = callerView[a]
    /\ \A c \in Calls : ResultRefs(c) \cap InputAddrs = {}
    /\ \A c \in Calls :
           CallDone(c) => DeepResult(heap, call[c].result) = call[c].returned

\* C13: any two calls of calculateMix that began with structurally identical
\* arguments returned structurally identical results, whatever calls ran
\* before, between or during them.
C13_Determinism ==
    \A c, d \in Calls :
        (/\ CallDone(c) /\ CallDone(d)
         /\ call[c].fn = "calculateMix" /\ call[d].fn = "calculateMix"
         /\ call[c].argsAtCall = call[d].argsAtCall)
        => call[c].returned = call[d].returned

\* two successful calls with identical arguments, the second begun after the
\* first and a call with other arguments had returned
C13_Witness ==
    \E c, d, e \in Calls :
        /\ c # d /\ c # e /\ d # e
        /\ MixSucceeded(c) /\ MixSucceeded(d) /\ CallDone(e)
        /\ call[c].argsAtCall = call[d].argsAtCall
        /\ call[e].fn = "calculateMix"
        /\ call[e].argsAtCall # call[c].argsAtCall
        /\ call[c].doneBefore = 0
        /\ call[e].doneBefore = 1
        /\ call[d].doneBefore = 2
        /\ Len(call[d].returned.value.mixItems) = MaxListLen

\* the result of the call run alone on the arguments it began with
RunAlone(c) ==
    IF call[c].fn = "calculateMix"
    THEN calculateMix(call[c].argsAtCall[1], call[c].argsAtCall[2])
    ELSE calculateGranular(call[c].argsAtCall[1], call[c].argsAtCall[2],
                           call[c].argsAtCall[3])

\* C16: however the steps of the calls interleave, every call returns what
\* the same call returns when it runs alone, and no call writes to an object
\* that another call reads or writes.
C16_SameAsAlone ==
    /\ \A c \in Calls : CallDone(c) => call[c].returned = RunAlone(c)
    /\ \A c, d \in Calls :
           c # d => Written(c) \cap (Written(d) \cup ReadOf(d)) = {}

\* a call returned while another call, begun before any call returned, was in
\* the middle of its loop
C16_Witness ==
    \E c, d \in Calls :
        /\ c # d
        /\ MixSucceeded(c)
        /\ call[c].doneBefore = 0
        /\ Len(call[c].returned.value.mixItems) = MaxListLen
        /\ call[d].pc = "forEach"
        /\ call[d].doneBefore = 0
        /\ call[d].i > 1
        /\ call[d].i <= Len(Val(heap, call[d].args[2]).elems)

(***************************************************************************)
(* Properties of the admin API (ApiSpec).                                  *)
(***************************************************************************)
KeyConfigured == Truthy(ADMIN_API_KEY)

AuthDone == stage # "auth"

\* the route handler has been entered
HandlerRan ==
    \/ stage \in {"handler", "upload"}
    \/ stage = "done" /\ res.status \notin {401, 403}

NothingWritten ==
    /\ \A t \in DOMAIN db : Len(db[t]) = 0
    /\ storage = {}

\* the request carries no key: X-Admin-API-Key absent or empty, and
\* Authorization absent, empty, or "Bearer " alone
NoKeySupplied ==
    /\ ~Truthy(req.headers.x_admin_api_key)
    /\ \/ ~req.headers.authorization.present
       \/ req.headers.authorization.chars \in {<<>>, BearerPrefix}

\* the key k in X-Admin-API-Key, or as the Bearer token of Authorization
KeyInHeaderOrBearer(k) ==
    \/ req.headers.x_admin_api_key = Text(k)
    \/ req.headers.authorization = Text(BearerPrefix \o k)

\* the key k in X-Admin-API-Key, or, that header being absent or empty, an
\* Authorization header that is k itself or k with "Bearer " put in once
KeyInHeaderOrAuthorization(k) ==
    \/ req.headers.x_admin_api_key = Text(k)
    \/ /\ ~Truthy(req.headers.x_admin_api_key)
       /\ req.headers.authorization.present
       /\ \/ req.headers.authorization.chars = k
          \/ \E i \in 0..Len(k) :
                 req.headers.authorization.chars =
                     SubSeq(k, 1, i) \o BearerPrefix \o SubSeq(k, i + 1, Len(k))

\* C17 as stated: with a key configured the handler runs only for a request
\* with the key in X-Admin-API-Key or as the Authorization Bearer token.
\* Violated: "Authorization: s3c", with no "Bearer ", reaches the handler.
C17_OnlyHeaderOrBearer ==
    (KeyConfigured /\ HandlerRan) => KeyInHeaderOrBearer(ADMIN_API_KEY.chars)

\* C17: with a key configured, the handler runs (and anything is written)
\* only for a request whose X-Admin-API-Key is the key or, that header being
\* absent or empty, whose Authorization header is the key with or without
\* "Bearer "; a request with no key is answered 401 and one with another key
\* 403, and then nothing is written.  With no key configured every request
\* reaches its handler.
C17_HandlerOnlyWithKey ==
    /\ (KeyConfigured /\ HandlerRan)
           => KeyInHeaderOrAuthorization(ADMIN_API_KEY.chars)
    /\ (KeyConfigured /\ ~HandlerRan) => NothingWritten
    /\ (KeyConfigured /\ AuthDone /\ NoKeySupplied)
           => stage = "done" /\ res.status = 401
    /\ (KeyConfigured /\ AuthDone /\ ~NoKeySupplied
            /\ ~KeyInHeaderOrAuthorization(ADMIN_API_KEY.chars))
           => stage = "done" /\ res.status = 403
    /\ (~KeyConfigured /\ AuthDone) => HandlerRan

\* a POST that passes every validation, sent with another key, answered 403
C17_Witness ==
    /\ KeyConfigured
    /\ stage = "done"
    /\ res.status = 403
    /\ req.method = "POST"
    /\ ValidationError(req.body, req.route) = ""
    /\ req.headers.authorization = Text(BearerPrefix \o WrongKey)
    /\ NothingWritten

\* the page the handler asked of the database
PageAsked == query.table # ""

EffectiveLimit == query.to - query.from + 1

EffectiveOffset == query.from

\* C18: the effective limit is the supplied limit when it is a number up to
\* 100, is 100 when the supplied limit is larger, and 50 when the limit is
\* missing or no number; it is always between 1 and 100, and the effective
\* offset is never negative.  Violated: limit=-5 gives -5, offset=-3 gives -3.
C18_EffectivePage ==
    PageAsked =>
        /\ req.query.limit = Text(<<"7", "5">>) => EffectiveLimit = 75
        /\ req.query.limit = Text(<<"1", "5", "0">>) => EffectiveLimit = 100
        /\ req.query.limit \in {Absent, Text(<<"a", "b", "c">>)}
               => EffectiveLimit = 50
        /\ EffectiveLimit >= 1 /\ EffectiveLimit <= 100
        /\ EffectiveOffset >= 0

\* C19: a POST whose inputs (treatment log) or pests_observed (scouting log)
\* is the text "[]" fails validation and inserts no row.  Violated: the
\* handlers test only Array.isArray, so the row is inserted.
C19_EmptyListRejected ==
    (/\ req.method = "POST"
     /\ ListField(req.body, req.route) = Text(<<"[", "]">>))
    => /\ \A t \in DOMAIN db : Len(db[t]) = 0
       /\ res.status # 201
       /\ (HandlerRan /\ stage = "done") => res.status = 400

(***************************************************************************)
(* Properties of the service worker (SwSpec).                              *)
(***************************************************************************)
\* the keys of the entries of all caches
CachedKeys == UNION {DOMAIN caches[i].entries : i \in 1..Len(caches)}

EventHandled == event.pc = "done"

\* C20: only GET requests are cached.  No cache holds an entry for a request
\* that is not GET, no put for one is under way, and a fetch event for a
\* request that is not GET gets no response from the worker, from its cache
\* or otherwise.
C20_OnlyGetCached ==
    /\ \A k \in CachedKeys : k[1] = "GET"
    /\ \A p \in puts : p.key[1] = "GET"
    /\ event.method \notin {"", "GET"}
           => /\ event.pc = "done"
              /\ event.respondedWith = "none"

\* a POST to a URL the cache has a GET entry for was handled and got no
\* response from the worker
C20_Witness ==
    /\ EventHandled
    /\ event.method = "POST"
    /\ event.mode = "navigate"
    /\ Match(caches, <<"GET", event.url>>) # 0
    /\ event.respondedWith = "none"
    /\ handled = MaxEvents

\* C21: a network response is written to the cache only when it is ok; no
\* cache ever holds an entry, and no put is under way, for a response that
\* is not ok.  Violated: the handlers put the copy of every response that
\* fetch resolves with, a 404 included.
C21_OnlyOkCached ==
    /\ \A i \in 1..Len(caches) : \A k \in DOMAIN caches[i].entries :
           caches[i].entries[k] = 200
    /\ \A p \in puts : p.status = 200

\* C22: once the work of activate has completed, the caches are exactly the
\* CACHE_NAME cache: every cache under another name has been deleted, and no
\* fetch event or put that follows brings one back.
C22_OldCachesGone ==
    lifecycle = "activated" => CacheNames(caches) = {CACHE_NAME}

\* two old caches were deleted, activation completed, and a response fetched
\* afterwards has been put into the cache
C22_Witness ==
    /\ lifecycle = "activated"
    /\ deleted = OldCacheNames
    /\ EventHandled
    /\ handled = MaxEvents
    /\ puts = {}
    /\ <<"GET", "/api/admin/requests">> \in CachedKeys

\* the response the caches hold for a key, 0 when they hold none
Cached(key) ==
    IF key \in CachedKeys
    THEN caches[CHOOSE i \in 1..Len(caches) :
                    key \in DOMAIN caches[i].entries].entries[key]
    ELSE 0

Dispatched == handled' = handled + 1 /\ event'.method = "GET"

Settled == event.pc = "network" /\ event'.pc = "done"

\* C23: the fetch strategy, step by step.  A navigation always starts with
\* the network; any other GET request is answered from the cache, with no
\* network fetch, when the cache has an entry, and goes to the network only on
\* a miss.  A network fetch that resolves is returned and a put of it is
\* started; one that fails stores nothing, and only then is a navigation
\* answered with the cached copy, or else with the cached /index.html.
C23_Step ==
    /\ Dispatched /\ event'.mode = "navigate" => event'.pc = "network"
    /\ Dispatched /\ event'.mode # "navigate" =>
           IF Cached(EntryKey(event')) # 0
           THEN /\ event'.pc = "done"
                /\ event'.respondedWith = "cache"
                /\ event'.status = Cached(EntryKey(event'))
                /\ event'.fetched = -1
           ELSE event'.pc = "network"
    /\ Settled /\ event'.fetched # 0 =>
           /\ event'.respondedWith = "network"
           /\ event'.status = event'.fetched
           /\ [key |-> EntryKey(event), status |-> event'.fetched] \in puts'
    /\ Settled /\ event'.fetched = 0 =>
           /\ puts' = puts
           /\ event'.respondedWith =
                  IF /\ event.mode = "navigate"
                     /\ \/ Cached(EntryKey(event)) # 0
                        \/ Cached(<<"GET", "/index.html">>) # 0
                  THEN "cache" ELSE "error"
           /\ event'.status =
                  IF event.mode # "navigate" THEN 0
                  ELSE IF Cached(EntryKey(event)) # 0
                  THEN Cached(EntryKey(event))
                  ELSE Cached(<<"GET", "/index.html">>)
    /\ event'.pc = "done" /\ event'.respondedWith = "cache" =>
           event'.fetched = IF event'.mode = "navigate" THEN 0 ELSE -1

C23_FetchStrategy == [][C23_Step]_vars

\* a navigation whose network fetch failed, and which has no cached copy of
\* its own, has been answered with the cached /index.html
C23_Witness ==
    /\ EventHandled
    /\ event.mode = "navigate"
    /\ event.fetched = 0
    /\ event.respondedWith = "cache"
    /\ EntryKey(event) \notin CachedKeys
    /\ event.status = Cached(<<"GET", "/index.html">>)

(***************************************************************************)
(* Properties of the POST handlers (ApiSpec).                              *)
(***************************************************************************)
RequiredMissing ==
    \E f \in {req.body.employee_name, req.body.date, req.body.location,
              req.body.crop, ListField(req.body, req.route)} : ~Truthy(f)

\* the first of the four checks that the body of the request fails
FirstFailure ==
    IF RequiredMissing THEN "required"
    ELSE IF ~DateRegexTest(req.body.date.chars) THEN "date"
    ELSE IF ListRejected(ListField(req.body, req.route)) THEN "list"
    ELSE IF /\ req.body.weather.present /\ req.body.weather.chars # <<>>
            /\ ~JSONparse(req.body.weather.chars).ok THEN "weather"
    ELSE "none"

MessageOf(failure) ==
    CASE failure = "required" -> MissingFieldsMessage(req.route)
      [] failure = "date"     -> "Invalid date format. Use YYYY-MM-DD"
      [] failure = "list"     -> InvalidListMessage(req.route)
      [] failure = "weather"  -> "Invalid weather format. Must be valid JSON"

\* C24: a POST of a treatment or scouting log whose body fails a validation
\* inserts no row and uploads no file, and once its handler has answered, the
\* answer is 400 with the message of the first check failed, the checks taken
\* in the order required fields, date, list, weather.
C24_ValidationFirst ==
    (req.method = "POST" /\ req.route \in PostRoutes /\ FirstFailure # "none")
    => /\ db = EmptyDb
       /\ storage = {}
       /\ stage # "upload"
       /\ (HandlerRan /\ stage = "done")
              => /\ res.status = 400
                 /\ res.message = MessageOf(FirstFailure)

\* a request with two files whose date, list and weather are all invalid has
\* been answered with the message about the date
C24_Witness ==
    /\ req.method = "POST"
    /\ req.route \in PostRoutes
    /\ HandlerRan /\ stage = "done"
    /\ req.files = 2
    /\ FirstFailure = "date"
    /\ ListRejected(ListField(req.body, req.route))
    /\ req.body.weather = Text(<<"x">>)
    /\ res.status = 400
    /\ res.message = "Invalid date format. Use YYYY-MM-DD"

PostedTo == db[TableOf(req.route)]

BodyValid ==
    IF req.route \in PostRoutes
    THEN FirstFailure = "none"
    ELSE /\ \A f \in {req.body.reporter_name, req.body.contact,
                      req.body.plant_type, req.body.symptoms,
                      req.body.urgency} : Truthy(f)
         /\ req.body.urgency.chars \in validUrgencies

\* C25: for a POST of a log or of an anonymous request with files.  While
\* the uploads are under way the row is already in its table; when the
\* handler has answered and some file is not in the storage, the answer is 201
\* with the id of the row, no photo and a warning, and the row is in the
\* table; when the insert failed the answer is 500 and the storage is empty.
C25_InsertThenUpload ==
    req.method = "POST" =>
        /\ (stage = "upload" \/ storage # {}) => Len(PostedTo) = 1
        /\ stage = "upload" => storage = {}
        /\ (/\ stage = "done" /\ Len(PostedTo) = 1 /\ req.files > 0
            /\ Cardinality(storage) < req.files)
               => /\ res.status = 201
                  /\ res.id = 1
                  /\ res.photos = <<>>
                  /\ res.warning
                  /\ PostedTo[1].photos = <<>>
        /\ (/\ HandlerRan /\ stage = "done" /\ BodyValid
            /\ Len(PostedTo) = 0)
               => /\ res.status = 500
                  /\ storage = {}

\* an anonymous request with two images, one of which was stored and one not,
\* has been answered 201 with a warning, and its row is in the table
C25_Witness ==
    /\ req.route = "/api/admin/requests/anonymous"
    /\ stage = "done"
    /\ req.files = 2
    /\ Cardinality(storage) = 1
    /\ Len(db.requests) = 1
    /\ db.requests[1].status = PendingText
    /\ res.status = 201
    /\ res.warning

(***************************************************************************)
(* Properties of the requests table (RequestsSpec).                        *)
(***************************************************************************)
Statuses ==
    {<<"p", "e", "n", "d", "i", "n", "g">>,
     <<"i", "n", "-", "p", "r", "o", "g", "r", "e", "s", "s">>,
     <<"r", "e", "s", "o", "l", "v", "e", "d">>,
     <<"c", "l", "o", "s", "e", "d">>}

Urgencies ==
    {<<"l", "o", "w">>, <<"m", "e", "d", "i", "u", "m">>,
     <<"h", "i", "g", "h">>, <<"c", "r", "i", "t", "i", "c", "a", "l">>}

RowsValid(rows) ==
    \A k \in 1..Len(rows) :
        rows[k].status \in Statuses /\ rows[k].urgency \in Urgencies

\* the step has added a row to requests
RowCreated == Len(db'.requests) = Len(db.requests) + 1

\* C26: whatever requests are posted and patched, every row of requests has
\* one of the four statuses and one of the four urgencies, and a row just
\* created is pending and has no reporter.
C26_Step ==
    /\ RowsValid(db'.requests)
    /\ RowCreated =>
           LET new == db'.requests[Len(db'.requests)]
           IN  /\ new.status = <<"p", "e", "n", "d", "i", "n", "g">>
               /\ new.reporter_id = JsonNull

C26_RowsValid == [][C26_Step]_vars

\* a request of critical urgency has been created and then closed by a PATCH
C26_Witness ==
    /\ Len(db.requests) = 1
    /\ db.requests[1].urgency = <<"c", "r", "i", "t", "i", "c", "a", "l">>
    /\ db.requests[1].status = <<"c", "l", "o", "s", "e", "d">>
    /\ req.method = "PATCH"
    /\ stage = "done"
    /\ res.status = 200

\* the handler of a PATCH answers
PatchAnswered == req.method = "PATCH" /\ stage = "handler" /\ stage' = "done"

\* the row as a PATCH with the status and assigned_to of the request leaves
\* it, whatever its comment
Patched(row) ==
    [row EXCEPT
        !.status = IF req.body.status.kind = "string"
                   THEN req.body.status.chars ELSE @,
        !.assigned_to =
            IF req.body.assigned_to.kind = "undefined" THEN @
            ELSE IF req.body.assigned_to.chars = <<>> THEN JsonNull
            ELSE req.body.assigned_to]

\* C27: a PATCH answered 400 or 404 leaves the table as it was, and a PATCH,
\* whatever it answers, stores no comment and leaves every row either as it
\* was or as its status and assigned_to alone make it.
C27_Step ==
    PatchAnswered =>
        /\ res'.status \in {400, 404} => db' = db
        /\ db'.request_comments = db.request_comments
        /\ Len(db'.requests) = Len(db.requests)
        /\ \A k \in 1..Len(db.requests) :
               db'.requests[k] \in {db.requests[k], Patched(db.requests[k])}

Completed(c) == loads[c].pc \in {"returned", "rejected"}

\* C28: however the calls of loadPlants interleave, plants.json is fetched at
\* most once, and when a call has completed, window.plantsMaster was an array
\* at that moment and the call returned that array.  Violated: a call made
\* while the fetch of another is under way finds plantsMaster unset and
\* fetches again; and a call whose fetch or response.json() rejects completes
\* with plantsMaster still unset.
C28_FetchedOnce ==
    /\ fetches <= 1
    /\ \A c \in Loads :
           Completed(c) => /\ loads[c].master.set
                           /\ loads[c].pc = "returned"
                           /\ loads[c].value = loads[c].master
====
